---- MODULE Spec2Model ----
(***************************************************************************)
(* Emergency-dispatch pipeline: triage classifier, events-manager          *)
(* orchestrator, billing saga and dispatch workflow, modelled from the     *)
(* Python services under src/services.                                     *)
(***************************************************************************)
EXTENDS Integers, Sequences, FiniteSets, TLC

(***************************************************************************)
(* Bounds                                                                  *)
(***************************************************************************)
MaxReadings == 3

\* Handler invocations of the events manager, and deliveries waiting at once.
MaxDeliveries == 2

MaxPending == 1

\* Billing saga executions.
MaxSagas == 2

\* Rows of the hospitals table.
MaxTable == 2

\* Threads inside publish_initiate_billing at the same time.
MaxThreads == 2

\* Connection losses one consumer loop goes through.
MaxLosses == 2

\* Messages published to one component's queue.
MaxBacklog == 1

\* Calls that fail (a broker, a database or a service not answering) in one
\* behaviour of the joined services.
MaxFaults == 1

\* Deliveries to the dispatch callback, and vitals messages per dispatch.
MaxRequests == 2

MaxVitals == 1

Incidents == {1, 2}

Patients == {1, 2}

\* A metric absent from the "metrics" object of a reading.
Missing == -1

\* heartRateBpm values offered to the classifier.
HRValues == {Missing, 39, 75, 130}

\* spO2Percentage values offered to the classifier.
SpO2Values == {Missing, 90, 93, 98}

VARIABLES
    service_state,      \* triage: counters of the health endpoint
    triagePublished,    \* triage: events handed to basic_publish, in order
    triageLog,          \* triage: one record per delivery handled
    triageUuid,         \* triage: number of uuid4() values drawn so far
    emPending,          \* events manager: deliveries waiting on its queues
    billing_initiated_incidents, \* events manager: AMQPSetup._billing_initiated_incidents
    emPublished,        \* events manager: bag of messages published so far
    emAcked,            \* events manager: the messages whose delivery was acked
    emLast,             \* events manager: the delivery handled last
    emTriageSeen,       \* incident ids already used by an enqueued triage event
    emDeliveries,       \* events manager: number of handler invocations
    billPc,             \* billing: position of the consumer in callback
    billMsg,            \* billing: the cmd.billing.initiate being handled
    billing_id,         \* billing: callback's local billing_id (0: None)
    payment_reference,  \* billing: callback's local payment_reference (0: None)
    insurance_verified, \* billing: callback's local insurance_verified
    rbRef,              \* billing: payment_reference argument of rollback_billing
    billings,           \* billing: the billings table, by row id
    sagaHist,           \* billing: what the current or last saga execution did
    stripeCount,        \* billing: payment intents the gateway created
    sagaCount,          \* billing: saga executions started
    dispatches,         \* dispatch: per dispatch_id, its threads and events
    ACTIVE_DISPATCHES,  \* dispatch: the module-level dict of that name
    SHOULD_STOP,        \* dispatch: the module-level flag of that name
    dispHandled,        \* dispatch: deliveries handed to callback
    dispLast,           \* dispatch: the last run of callback (history)
    fnIn,               \* the arguments of the function call under study
    fnOut,              \* its result ("none" before the call)
    ledgerLock,         \* events manager: the holder of _dedup_lock (0: free)
    thr,                \* events manager: threads in publish_initiate_billing
    consumer,           \* per component, the state of its consumer loop
    wearQ,              \* broker: wearable.data readings queued for triage
    dispQ,              \* broker: messages in the Dispatch queue
    billQ,              \* broker: messages in the Billings queue
    routed,             \* broker: the publications it has routed
    faults              \* the failed calls so far

triageVars == <<service_state, triagePublished, triageLog, triageUuid>>

emVars == <<emPending, billing_initiated_incidents, emPublished, emAcked,
            emLast, emTriageSeen, emDeliveries>>

billVars == <<billPc, billMsg, billing_id, payment_reference,
              insurance_verified, rbRef, billings, sagaHist, stripeCount,
              sagaCount>>

dispVars == <<dispatches, ACTIVE_DISPATCHES, SHOULD_STOP, dispHandled,
              dispLast>>

fnVars == <<fnIn, fnOut, ledgerLock, thr, consumer>>

netVars == <<wearQ, dispQ, billQ, routed, faults>>

vars == <<service_state, triagePublished, triageLog, triageUuid,
          emPending, billing_initiated_incidents, emPublished, emAcked,
          emLast, emTriageSeen, emDeliveries,
          billPc, billMsg, billing_id, payment_reference,
          insurance_verified, rbRef, billings, sagaHist, stripeCount,
          sagaCount,
          dispatches, ACTIVE_DISPATCHES, SHOULD_STOP, dispHandled, dispLast,
          fnIn, fnOut, ledgerLock, thr, consumer,
          wearQ, dispQ, billQ, routed, faults>>

(***************************************************************************)
(* Triage service (services/triage/src/app.py)                             *)
(***************************************************************************)

\* metrics.get(key, default)
MetricGet(v, default) == IF v = Missing THEN default ELSE v

determine_triage_status(metrics) ==
    LET hr   == MetricGet(metrics.heartRateBpm, 0)
        spo2 == MetricGet(metrics.spO2Percentage, 100)
    IN  IF spo2 < 91 THEN "Emergency"
        ELSE IF hr > 150 \/ hr < 40 THEN "Emergency"
        ELSE IF spo2 < 95 THEN "Abnormal"
        ELSE IF hr > 120 \/ hr < 50 THEN "Abnormal"
        ELSE "Normal"

\* str.lower() on the statuses the classifier returns
Lower(s) ==
    CASE s = "Emergency" -> "emergency"
      [] s = "Abnormal"  -> "abnormal"
      [] s = "Normal"    -> "normal"
      [] OTHER           -> s

PRODUCE_ROUTING_KEY == "triage.status."

\* PRODUCE_ROUTING_KEY + status.lower()
TriageRoutingKey(status) ==
    CASE Lower(status) = "emergency" -> "triage.status.emergency"
      [] Lower(status) = "abnormal"  -> "triage.status.abnormal"
      [] OTHER                       -> "triage.status.normal"

\* The condition under which process_message builds and publishes an event.
TriageShouldPublish(status, userId) ==
    status = "Emergency" \/ status = "Abnormal"

WearableBodies ==
    [json_ok : {TRUE}, userId : Patients,
     metrics : [heartRateBpm : HRValues, spO2Percentage : SpO2Values]]
    \cup
    [json_ok : {FALSE}, userId : {0},
     metrics : [heartRateBpm : {Missing}, spO2Percentage : {Missing}]]

TriageInit ==
    /\ service_state = [messages_processed |-> 0, emergencies_detected |-> 0,
                        abnormalities_detected |-> 0]
    /\ triagePublished = <<>>
    /\ triageLog = <<>>
    /\ triageUuid = 0

\* process_message: one delivery of a wearable.data message.  publishOk is
\* whether channel.basic_publish returns normally.
process_message(body, publishOk) ==
    /\ Len(triageLog) < MaxReadings
    /\ IF ~body.json_ok
       THEN \* json.JSONDecodeError branch, then the finally clause acks
            /\ triageLog' = Append(triageLog,
                   [json_ok |-> FALSE, userId |-> 0, status |-> "none",
                    publish_called |-> FALSE, published |-> FALSE,
                    acks |-> 1, nacks |-> 0])
            /\ UNCHANGED <<service_state, triagePublished, triageUuid>>
       ELSE LET status == determine_triage_status(body.metrics)
                wants  == TriageShouldPublish(status, body.userId)
                event  == [routing_key |-> TriageRoutingKey(status),
                           incident_id |-> triageUuid + 1,
                           user_id     |-> body.userId,
                           status      |-> status]
            IN  /\ service_state' =
                     [messages_processed |->
                          service_state.messages_processed + 1,
                      emergencies_detected |->
                          service_state.emergencies_detected
                          + (IF wants /\ status = "Emergency" THEN 1 ELSE 0),
                      abnormalities_detected |->
                          service_state.abnormalities_detected
                          + (IF wants /\ status # "Emergency" THEN 1 ELSE 0)]
                /\ triageUuid' = IF wants THEN triageUuid + 1 ELSE triageUuid
                /\ triagePublished' =
                     IF wants /\ publishOk
                     THEN Append(triagePublished, event)
                     ELSE triagePublished
                /\ triageLog' = Append(triageLog,
                     [json_ok |-> TRUE, userId |-> body.userId,
                      status |-> status, publish_called |-> wants,
                      published |-> wants /\ publishOk,
                      acks |-> 1, nacks |-> 0])

TriageDeliver ==
    \E body \in WearableBodies, publishOk \in BOOLEAN :
        process_message(body, publishOk)


(***************************************************************************)
(* Events manager (services/events-manager/src/amqp_setup.py)              *)
(***************************************************************************)
RK_TRIAGE_ABNORMAL == "triage.status.abnormal"
RK_TRIAGE_EMERGENCY == "triage.status.emergency"
RK_SEND_ALERT == "cmd.notification.send_alert"
RK_DISPATCH_REQUEST == "cmd.dispatch.request_ambulance"
RK_DISPATCH_UNIT_ASSIGNED == "event.dispatch.unit_assigned"
RK_DISPATCH_ENROUTE == "event.dispatch.enroute"
RK_DISPATCH_PATIENT_ONBOARD == "event.dispatch.patient_onboard"
RK_DISPATCH_ARRIVED == "event.dispatch.arrived_at_hospital"
RK_BILLING_INITIATE == "cmd.billing.initiate"
RK_BILLING_COMPLETED == "event.billing.completed"
RK_BILLING_FAILED == "event.billing.failed"

Q_TRIAGE_ACTIONABLE == "events-manager.q.triage-actionable"
Q_DISPATCH_STATUS == "events-manager.q.dispatch-status"
Q_BILLING_STATUS == "events-manager.q.billing-status"

TriageRks == {RK_TRIAGE_ABNORMAL, RK_TRIAGE_EMERGENCY}
DispatchRks == {RK_DISPATCH_UNIT_ASSIGNED, RK_DISPATCH_ENROUTE,
                RK_DISPATCH_PATIENT_ONBOARD, RK_DISPATCH_ARRIVED}
BillingRks == {RK_BILLING_COMPLETED, RK_BILLING_FAILED}

\* The queue a routing key is bound to in setup_topology.
EmQueueOf(rk) ==
    CASE rk \in TriageRks   -> Q_TRIAGE_ACTIONABLE
      [] rk \in DispatchRks -> Q_DISPATCH_STATUS
      [] rk \in BillingRks  -> Q_BILLING_STATUS
      [] OTHER              -> "none"

\* A key absent from a JSON payload.
NoId == 0
NoStatus == "<absent>"

\* A table whose enroute entry repeats the unit_assigned template.
TEMPLATE_BY_RK_enrouteAsAssigned(rk) ==
    CASE rk = "event.dispatch.unit_assigned"       -> "DISPATCH_UNIT_ASSIGNED"
      [] rk = "event.dispatch.enroute"             -> "DISPATCH_UNIT_ASSIGNED"
      [] rk = "event.dispatch.patient_onboard"     -> "DISPATCH_PATIENT_ONBOARD"
      [] rk = "event.dispatch.arrived_at_hospital" ->
             "DISPATCH_ARRIVED_AT_HOSPITAL"
      [] OTHER                                     -> ""

\* _TEMPLATE_BY_RK.get(routing_key); "" stands for None
TEMPLATE_BY_RK(rk) ==
    CASE rk = RK_DISPATCH_UNIT_ASSIGNED   -> "DISPATCH_UNIT_ASSIGNED"
      [] rk = RK_DISPATCH_ENROUTE         -> "DISPATCH_ENROUTE"
      [] rk = RK_DISPATCH_PATIENT_ONBOARD -> "DISPATCH_PATIENT_ONBOARD"
      [] rk = RK_DISPATCH_ARRIVED         -> "DISPATCH_ARRIVED_AT_HOSPITAL"
      [] OTHER                            -> ""

\* _TEMPLATE_BILLING_BY_RK.get(routing_key); "" stands for None
TEMPLATE_BILLING_BY_RK(rk) ==
    CASE rk = RK_BILLING_COMPLETED -> "BILLING_COMPLETED"
      [] rk = RK_BILLING_FAILED    -> "BILLING_FAILED"
      [] OTHER                     -> ""

\* f"TRIAGE_{status.upper()}"
TriageTemplate(status) ==
    CASE status \in {"emergency", "Emergency"} -> "TRIAGE_EMERGENCY"
      [] status \in {"abnormal", "Abnormal"}   -> "TRIAGE_ABNORMAL"
      [] OTHER                                 -> "TRIAGE_OTHER"

\* Statuses a triage event may carry: the lower-case ones of the payload
\* contract and the capitalised one the classifier returns.
EmStatuses == {"abnormal", "emergency", "Emergency"}

EmTriageMessages ==
    [rk : {RK_TRIAGE_EMERGENCY}, json_ok : {TRUE}, incident_id : Incidents,
     patient_id : {1}, status : {"emergency", "Emergency"}]
    \cup
    [rk : {RK_TRIAGE_ABNORMAL}, json_ok : {TRUE}, incident_id : Incidents,
     patient_id : {1}, status : {"abnormal"}]
    \cup
    {[rk |-> RK_TRIAGE_EMERGENCY, json_ok |-> TRUE, incident_id |-> NoId,
      patient_id |-> 1, status |-> "emergency"],
     [rk |-> RK_TRIAGE_EMERGENCY, json_ok |-> TRUE, incident_id |-> 1,
      patient_id |-> 1, status |-> NoStatus],
     [rk |-> RK_TRIAGE_ABNORMAL, json_ok |-> FALSE, incident_id |-> NoId,
      patient_id |-> NoId, status |-> NoStatus]}

EmDispatchMessages ==
    [rk : DispatchRks, json_ok : {TRUE}, incident_id : Incidents,
     patient_id : {1}, status : {NoStatus}]
    \cup
    {[rk |-> RK_DISPATCH_ARRIVED, json_ok |-> TRUE, incident_id |-> NoId,
      patient_id |-> 1, status |-> NoStatus],
     [rk |-> RK_DISPATCH_ARRIVED, json_ok |-> TRUE, incident_id |-> 1,
      patient_id |-> NoId, status |-> NoStatus],
     [rk |-> RK_DISPATCH_ENROUTE, json_ok |-> FALSE, incident_id |-> NoId,
      patient_id |-> NoId, status |-> NoStatus]}

EmBillingMessages ==
    [rk : BillingRks, json_ok : {TRUE}, incident_id : Incidents,
     patient_id : {1}, status : {NoStatus}]
    \cup
    {[rk |-> RK_BILLING_FAILED, json_ok |-> TRUE, incident_id |-> NoId,
      patient_id |-> 1, status |-> NoStatus],
     [rk |-> RK_BILLING_COMPLETED, json_ok |-> FALSE, incident_id |-> NoId,
      patient_id |-> NoId, status |-> NoStatus]}

EmMessages == EmTriageMessages \cup EmDispatchMessages \cup EmBillingMessages

NoMessage == [rk |-> "none", json_ok |-> FALSE, incident_id |-> NoId,
              patient_id |-> NoId, status |-> NoStatus]

\* One message handed to AMQPSetup.publish.
Pub(rk, incident_id, template, patient_id) ==
    [rk |-> rk, incident_id |-> incident_id, template |-> template,
     patient_id |-> patient_id]

BagAdd(b, e) ==
    IF e \in DOMAIN b THEN [b EXCEPT ![e] = @ + 1] ELSE b @@ (e :> 1)

RECURSIVE BagAddAll(_, _)
BagAddAll(b, es) ==
    IF es = <<>> THEN b ELSE BagAddAll(BagAdd(b, Head(es)), Tail(es))

BagCount(b, e) == IF e \in DOMAIN b THEN b[e] ELSE 0

\* Number of published messages with routing key rk and incident i.
EmCount(rk, i) ==
    LET S == {e \in DOMAIN emPublished : e.rk = rk /\ e.incident_id = i}
        RECURSIVE Sum(_)
        Sum(T) == IF T = {} THEN 0
                  ELSE LET e == CHOOSE x \in T : TRUE
                       IN  emPublished[e] + Sum(T \ {e})
    IN  Sum(S)

EmInit ==
    /\ emPending = {}
    /\ billing_initiated_incidents = {}
    /\ emPublished = << >>
    /\ emAcked = {}
    /\ emLast = [msg |-> NoMessage, decision |-> "none", pubs |-> <<>>,
                 failed |-> FALSE]
    /\ emTriageSeen = {}
    /\ emDeliveries = 0

\* A request published for every actionable status.
IsEmergencyStatus_anyActionable(status) ==
    status \in {"emergency", "abnormal"}

\* publish_dispatch_request_if_emergency: whether a request is published.
IsEmergencyStatus(status) == status = "emergency"

\* publish_initiate_billing, the check under _dedup_lock: whether this call
\* goes on to publish.
BillingNotYetInitiated(incident_id) ==
    incident_id \notin billing_initiated_incidents

\* The end of a handler: what it published, its ack decision ("ack",
\* "nack_drop" for basic_nack(requeue=False), "nack_requeue" for
\* basic_nack(requeue=True)) and the ledger it leaves.
EmEnd(m, pubs, decision, ledger, failed) ==
    /\ emPublished' = BagAddAll(emPublished, pubs)
    /\ emPending' = IF decision = "nack_requeue" THEN emPending
                    ELSE emPending \ {m}
    /\ emAcked' = IF decision = "ack"
                  THEN emAcked \cup {m}
                  ELSE emAcked
    /\ emLast' = [msg |-> m, decision |-> decision, pubs |-> pubs,
                  failed |-> failed]
    /\ billing_initiated_incidents' = ledger
    /\ emDeliveries' = emDeliveries + 1
    /\ UNCHANGED emTriageSeen

\* A handler ends without a publish having raised.
EmFinish(m, pubs, decision, ledger) == EmEnd(m, pubs, decision, ledger, FALSE)

\* A failed publish answered by an ack.
HandlerErrorDecision_ack(m) == "ack"

\* The handlers' `except Exception` clause: basic_nack(requeue=True).
HandlerErrorDecision(m) == "nack_requeue"

\* A failed publish that still marks the incident in the ledger.
EmPublishFailed_marksLedger(m, pubs, ledger) ==
    EmEnd(m, pubs, "nack_requeue", ledger \cup {m.incident_id}, TRUE)

\* A publish raises: pubs were published before it, the handler's
\* `except Exception` clause ends the run.
EmPublishFailed(m, pubs, ledger) ==
    EmEnd(m, pubs, HandlerErrorDecision(m), ledger, TRUE)

\* _on_triage_status: json.loads fails, or payload["incident_id"] or
\* payload["status"] raises KeyError.
TriagePayloadBad(m) ==
    ~m.json_ok \/ m.incident_id = NoId \/ m.status = NoStatus

\* The dispatch payload test without the patient_id lookup.
DispatchPayloadBad_noPatient(m) == ~m.json_ok \/ m.incident_id = NoId

\* _on_dispatch_update: json.loads fails, or payload["incident_id"] or
\* payload["patient_id"] raises KeyError in publish_dispatch_status_alert.
DispatchPayloadBad(m) ==
    ~m.json_ok \/ m.incident_id = NoId \/ m.patient_id = NoId

\* _on_billing_status: json.loads fails, or payload["incident_id"] raises
\* KeyError in publish_billing_status_alert.
BillingPayloadBad(m) == ~m.json_ok \/ m.incident_id = NoId

\* _on_triage_status.  alertOk / requestOk: whether the publish of the alert /
\* of the ambulance request returns normally.
on_triage_status(m, alertOk, requestOk) ==
    LET alert   == Pub(RK_SEND_ALERT, m.incident_id,
                       TriageTemplate(m.status), m.patient_id)
        request == Pub(RK_DISPATCH_REQUEST, m.incident_id, "", m.patient_id)
        ledger  == billing_initiated_incidents
    IN  IF TriagePayloadBad(m)
        THEN EmFinish(m, <<>>, "nack_drop", ledger)
        ELSE IF ~alertOk
        THEN EmPublishFailed(m, <<>>, ledger)
        ELSE IF ~IsEmergencyStatus(m.status)
        THEN EmFinish(m, <<alert>>, "ack", ledger)
        ELSE IF ~requestOk
        THEN EmPublishFailed(m, <<alert>>, ledger)
        ELSE EmFinish(m, <<alert, request>>, "ack", ledger)

\* Billing initiated when the patient is on board, too.
TriggersBilling_onboardToo(rk) ==
    rk \in {"event.dispatch.arrived_at_hospital",
            "event.dispatch.patient_onboard"}

\* _on_dispatch_update: whether publish_initiate_billing is called.
TriggersBilling(rk) == rk = RK_DISPATCH_ARRIVED

\* _on_dispatch_update, with publish_dispatch_status_alert and
\* publish_initiate_billing.
on_dispatch_update(m, alertOk, billingOk) ==
    LET alert   == Pub(RK_SEND_ALERT, m.incident_id,
                       TEMPLATE_BY_RK(m.rk), m.patient_id)
        billing == Pub(RK_BILLING_INITIATE, m.incident_id, "", m.patient_id)
        ledger  == billing_initiated_incidents
    IN  IF DispatchPayloadBad(m)
        THEN EmFinish(m, <<>>, "nack_drop", ledger)
        ELSE IF ~alertOk
        THEN EmPublishFailed(m, <<>>, ledger)
        ELSE IF ~TriggersBilling(m.rk)
        THEN EmFinish(m, <<alert>>, "ack", ledger)
        ELSE IF ~BillingNotYetInitiated(m.incident_id)
        THEN EmFinish(m, <<alert>>, "ack", ledger)
        ELSE IF ~billingOk
        THEN EmPublishFailed(m, <<alert>>, ledger \cup {m.incident_id})
        ELSE EmFinish(m, <<alert, billing>>, "ack",
                      ledger \cup {m.incident_id})

\* _on_billing_status, with publish_billing_status_alert.
on_billing_status(m, alertOk) ==
    LET alert  == Pub(RK_SEND_ALERT, m.incident_id,
                      TEMPLATE_BILLING_BY_RK(m.rk), m.patient_id)
        ledger == billing_initiated_incidents
    IN  IF BillingPayloadBad(m)
        THEN EmFinish(m, <<>>, "nack_drop", ledger)
        ELSE IF ~alertOk
        THEN EmPublishFailed(m, <<>>, ledger)
        ELSE EmFinish(m, <<alert>>, "ack", ledger)

\* The broker routes a message to the events manager's queues.  Each triage
\* event carries an incident_id of its own (triage draws a fresh UUID).
EmEnqueue ==
    \E m \in EmMessages :
        /\ Cardinality(emPending) < MaxPending
        /\ emDeliveries < MaxDeliveries
        /\ m \notin emPending
        /\ (m.rk \in TriageRks /\ m.json_ok /\ m.incident_id # NoId
               /\ m.status # NoStatus)
             => m.incident_id \notin emTriageSeen
        /\ emPending' = emPending \cup {m}
        /\ emTriageSeen' =
             IF m.rk \in TriageRks /\ m.json_ok /\ m.status # NoStatus
             THEN emTriageSeen \cup ({m.incident_id} \ {NoId})
             ELSE emTriageSeen
        /\ UNCHANGED <<billing_initiated_incidents, emPublished, emAcked,
                       emLast, emDeliveries>>

EmHandleTriage ==
    \E m \in emPending, alertOk \in BOOLEAN, requestOk \in BOOLEAN :
        /\ emDeliveries < MaxDeliveries
        /\ EmQueueOf(m.rk) = Q_TRIAGE_ACTIONABLE
        /\ on_triage_status(m, alertOk, requestOk)

EmHandleDispatch ==
    \E m \in emPending, alertOk \in BOOLEAN, billingOk \in BOOLEAN :
        /\ emDeliveries < MaxDeliveries
        /\ EmQueueOf(m.rk) = Q_DISPATCH_STATUS
        /\ on_dispatch_update(m, alertOk, billingOk)

EmHandleBilling ==
    \E m \in emPending, alertOk \in BOOLEAN :
        /\ emDeliveries < MaxDeliveries
        /\ EmQueueOf(m.rk) = Q_BILLING_STATUS
        /\ on_billing_status(m, alertOk)

(***************************************************************************)
(* Billing saga (services/billings/src/app.py)                             *)
(***************************************************************************)

\* None as a billing_id or a payment_reference.
None == 0

\* cmd.billing.initiate bodies.  patient_id None is a present but empty
\* field; amount_ok is whether float(amount) succeeds; simulate_failure is
\* message_body.get("simulate_failure") == "payment".
BillingMessages ==
    [json_ok : {TRUE}, incident_id : Incidents, patient_id : {None, 1},
     amount_ok : BOOLEAN, simulate_failure : BOOLEAN]
    \cup
    {[json_ok |-> FALSE, incident_id |-> NoId, patient_id |-> None,
      amount_ok |-> FALSE, simulate_failure |-> FALSE]}

\* What the HTTP call of verify_insurance can yield.  body: what r.json()
\* makes of the response body ("object": a JSON object; "text": not JSON,
\* r.json() raises ValueError; "non_object": JSON that is not an object, a
\* list or a string or null).  verified: the object's "verified" member
\* ("true": the JSON value true).
InsuranceResponses(codes) ==
    [kind : {"response"}, status_code : codes, body : {"object"},
     verified : {"true", "false", "absent"}]
    \cup
    [kind : {"response"}, status_code : codes,
     body : {"text", "non_object"}, verified : {"absent"}]

InsuranceFailures ==
    {[kind |-> "network_error", status_code |-> 0, body |-> "text",
      verified |-> "absent"],
     [kind |-> "exception", status_code |-> 0, body |-> "text",
      verified |-> "absent"]}

InsuranceOutcomes == InsuranceResponses({200, 402, 404, 500}) \cup InsuranceFailures

InsuranceResult(verified, reason) == [verified |-> verified, reason |-> reason]

\* verify_insurance from requests.post on: a RequestException gives
\* SERVICE_UNAVAILABLE; payload.get on a payload that is not a dict raises
\* AttributeError, which the outer except turns into SERVICE_ERROR, as it
\* does any other exception.
verify_insurance(o) ==
    IF o.kind = "network_error"
    THEN InsuranceResult(FALSE, "SERVICE_UNAVAILABLE")
    ELSE IF o.kind = "exception"
    THEN InsuranceResult(FALSE, "SERVICE_ERROR")
    ELSE IF o.status_code = 200 /\ o.body = "non_object"
    THEN InsuranceResult(FALSE, "SERVICE_ERROR")
    ELSE IF o.status_code = 200 /\ o.verified = "true"
    THEN InsuranceResult(TRUE, "OK")
    ELSE IF o.body = "non_object"
    THEN InsuranceResult(FALSE, "SERVICE_ERROR")
    ELSE IF o.status_code = 404
    THEN InsuranceResult(FALSE, "NO_POLICY")
    ELSE IF o.status_code = 402
    THEN InsuranceResult(FALSE, "INSUFFICIENT_COVERAGE")
    ELSE InsuranceResult(FALSE, "SERVICE_ERROR")

\* How verify_insurance gets its amount: passed in, or read from the latest
\* billings row ("looked_up"), which may be missing or may fail to be read.
AmountSources == {"given", "looked_up", "no_row", "db_error"}

\* verify_insurance(incident_id, patient_id, amount) as a whole.
verify_insurance_call(amount, o) ==
    IF amount \in {"no_row", "db_error"}
    THEN InsuranceResult(FALSE, "SERVICE_ERROR")
    ELSE verify_insurance(o)

\* Outcomes of process_payment: a payment intent was created, or the result
\* has success False (declined, or an exception caught inside).
PaymentOutcomes == {"success", "declined", "error"}

\* Outcomes of one call of update_billing_status: the UPDATE is committed and
\* True returned; a mysql.connector.Error is caught and False returned; an
\* exception leaves the function before, or after, the commit.
DbOutcomes == {"OK", "DB_ERROR", "RAISE_UNCOMMITTED", "RAISE_COMMITTED"}

DbCommits(outcome) == outcome \in {"OK", "RAISE_COMMITTED"}

\* Whether update_billing_status leaves by an exception.
DbRaises(outcome) == outcome \in {"RAISE_UNCOMMITTED", "RAISE_COMMITTED"}

\* An UPDATE that leaves the payment_reference column alone.
update_billing_status_keepsReference(table, id, iv, ref, status, outcome) ==
    IF outcome \in {"OK", "RAISE_COMMITTED"} /\ id \in DOMAIN table
    THEN [table EXCEPT ![id] = [@ EXCEPT !.status = status,
                                         !.insurance_verified = iv]]
    ELSE table

\* update_billing_status(id, insurance_verified, payment_reference, status):
\* the table it leaves.
update_billing_status(table, id, iv, ref, status, outcome) ==
    IF DbCommits(outcome) /\ id \in DOMAIN table
    THEN [table EXCEPT ![id] = [@ EXCEPT !.status = status,
                                         !.insurance_verified = iv,
                                         !.payment_reference = ref]]
    ELSE table

NoSagaHist ==
    [finished |-> FALSE, created |-> FALSE, insurance |-> "none",
     payment_called |-> FALSE, payment_ok |-> FALSE, paid_ref |-> None,
     paid_update |-> "none", rolled_back |-> FALSE, refunds |-> <<>>,
     refund_failed |-> FALSE, cancel |-> "none", attempted |-> <<>>,
     publish_failed |-> FALSE, events |-> <<>>, acked |-> FALSE]

\* consume: basic_consume(queue=..., on_message_callback=callback,
\* auto_ack=True): the broker takes a message as acknowledged when it
\* delivers it.
AUTO_ACK == TRUE

\* The history of a saga at the delivery of its message.
DeliveredHist == [NoSagaHist EXCEPT !.acked = AUTO_ACK]

BillingInit ==
    /\ billPc = "idle"
    /\ billMsg = [json_ok |-> FALSE, incident_id |-> NoId, patient_id |-> None,
                  amount_ok |-> FALSE, simulate_failure |-> FALSE]
    /\ billing_id = None
    /\ payment_reference = None
    /\ insurance_verified = FALSE
    /\ rbRef = None
    /\ billings = << >>
    /\ sagaHist = NoSagaHist
    /\ stripeCount = 0
    /\ sagaCount = 0

\* callback returns (the finally clause closes the cursor).
SagaReturn(hist) ==
    /\ billPc' = "idle"
    /\ sagaHist' = [hist EXCEPT !.finished = TRUE]

\* callback calls rollback_billing(billing_id, payment_reference=ref, ...).
SagaRollback(hist, ref) ==
    /\ billPc' = "rb_refund"
    /\ rbRef' = ref
    /\ sagaHist' = [hist EXCEPT !.rolled_back = TRUE]

\* A saga that goes on to STEP 2 without its row.
AfterCreate_goesOn(createOk) == "insurance"

\* STEP 1: the except clause returns, the else path goes on to STEP 2.
AfterCreate(createOk) == IF createOk THEN "insurance" ELSE "idle"

\* callback up to the end of STEP 1: the body is parsed and the PENDING row
\* inserted.  createOk is whether the INSERT commits.
BillingCreate(m, createOk) ==
    /\ billPc = "idle"
    /\ sagaCount < MaxSagas
    /\ sagaCount' = sagaCount + 1
    /\ billMsg' = m
    /\ payment_reference' = None
    /\ insurance_verified' = FALSE
    /\ rbRef' = None
    /\ UNCHANGED stripeCount
    /\ IF ~m.json_ok
       THEN \* outer handler: billing_id is None, nothing to roll back
            /\ billing_id' = None
            /\ UNCHANGED billings
            /\ SagaReturn(DeliveredHist)
       ELSE IF AfterCreate(createOk) = "idle"
       THEN /\ billing_id' = None
            /\ UNCHANGED billings
            /\ SagaReturn(DeliveredHist)
       ELSE IF ~createOk
       THEN /\ billing_id' = None
            /\ UNCHANGED billings
            /\ billPc' = AfterCreate(createOk)
            /\ sagaHist' = DeliveredHist
       ELSE LET id == Len(billings) + 1
            IN  /\ billing_id' = id
                /\ billings' = Append(billings,
                      [incident_id |-> m.incident_id,
                       patient_id |-> m.patient_id, status |-> "PENDING",
                       insurance_verified |-> FALSE,
                       payment_reference |-> None])
                /\ billPc' = "insurance"
                /\ sagaHist' = [DeliveredHist EXCEPT !.created = TRUE]

\* Only the absence of a policy counts as a rejection.
InsuranceRejected_onlyNoPolicy(v) == v.reason = "NO_POLICY"

\* STEP 2, the test on the verification result: whether the saga compensates.
InsuranceRejected(v) == ~v.verified

\* STEP 2: verify insurance.
BillingInsurance(o) ==
    /\ billPc = "insurance"
    /\ LET v    == verify_insurance(o)
           hist == [sagaHist EXCEPT !.insurance = v.reason]
       IN  IF InsuranceRejected(v)
           THEN /\ SagaRollback(hist, None)
                /\ insurance_verified' = FALSE
           ELSE /\ insurance_verified' = TRUE
                /\ billPc' = "payment"
                /\ sagaHist' = hist
                /\ UNCHANGED rbRef
    /\ UNCHANGED <<billMsg, billing_id, payment_reference, billings,
                   stripeCount, sagaCount>>

\* STEP 3: process payment.
BillingPayment(outcome) ==
    /\ billPc = "payment"
    /\ IF ~billMsg.amount_ok
       THEN \* int(float(amount) * 100) raises before the gateway is called
            /\ SagaRollback(sagaHist, None)
            /\ UNCHANGED <<payment_reference, stripeCount>>
       ELSE IF outcome # "success"
       THEN /\ SagaRollback([sagaHist EXCEPT !.payment_called = TRUE], None)
            /\ UNCHANGED <<payment_reference, stripeCount>>
       ELSE /\ stripeCount' = stripeCount + 1
            /\ payment_reference' = stripeCount + 1
            /\ billPc' = "update_paid"
            /\ sagaHist' = [sagaHist EXCEPT !.payment_called = TRUE,
                                            !.payment_ok = TRUE,
                                            !.paid_ref = stripeCount + 1]
            /\ UNCHANGED rbRef
    /\ UNCHANGED <<billMsg, billing_id, insurance_verified, billings,
                   sagaCount>>

\* Whether STEP 4 goes on to STEP 5 after update_billing_status(...,
\* status="PAID") ended with this outcome: only an exception diverts it.
PaidUpdateAccepted(outcome) == ~DbRaises(outcome)

\* STEP 4: update the row to PAID.
BillingUpdatePaid(outcome) ==
    /\ billPc = "update_paid"
    /\ IF billMsg.simulate_failure
       THEN /\ SagaRollback([sagaHist EXCEPT !.paid_update = "SIMULATED"],
                            payment_reference)
            /\ UNCHANGED billings
       ELSE /\ billings' = update_billing_status(billings, billing_id, TRUE,
                               payment_reference, "PAID", outcome)
            /\ IF PaidUpdateAccepted(outcome)
               THEN /\ billPc' = "publish_completed"
                    /\ sagaHist' = [sagaHist EXCEPT !.paid_update = outcome]
                    /\ UNCHANGED rbRef
               ELSE SagaRollback([sagaHist EXCEPT !.paid_update = outcome],
                                 payment_reference)
    /\ UNCHANGED <<billMsg, billing_id, payment_reference,
                   insurance_verified, stripeCount, sagaCount>>

BillingEvent(rk, status, ref) ==
    [rk |-> rk, billing_id |-> billing_id,
     incident_id |-> billMsg.incident_id, patient_id |-> billMsg.patient_id,
     status |-> status, payment_reference |-> ref]

\* STEP 5: publish event.billing.completed.  publishOk is the result of
\* amqp.publish_status_update, which reports a failure by returning False.
BillingPublishCompleted(publishOk) ==
    /\ billPc = "publish_completed"
    /\ SagaReturn(
         [sagaHist EXCEPT
            !.attempted = Append(@, RK_BILLING_COMPLETED),
            !.publish_failed = ~publishOk,
            !.events = IF publishOk
                       THEN Append(@, BillingEvent(RK_BILLING_COMPLETED,
                                        "COMPLETED", payment_reference))
                       ELSE @])
    /\ UNCHANGED <<billMsg, billing_id, payment_reference,
                   insurance_verified, rbRef, billings, stripeCount,
                   sagaCount>>

\* The refund requested whatever the reference.
RefundWanted_always(ref) == TRUE

\* The refund never requested.
RefundWanted_never(ref) == FALSE

\* rollback_billing (1): the refund is requested when a reference was given.
RefundWanted(ref) == ref # None

\* A failed refund ending the compensation of the row.
AfterRefund_skipsCancel(refundOk) ==
    IF refundOk THEN "rb_cancel" ELSE "rb_publish"

\* rollback_billing (1): an unsuccessful result and an exception are both
\* recorded in rollback_results and control goes on to (2).
AfterRefund(refundOk) == "rb_cancel"

\* rollback_billing (1): refundOk is whether refund_payment returned
\* success (it did not when it returned success False or raised).
RollbackRefund(refundOk) ==
    /\ billPc = "rb_refund"
    /\ billPc' = IF RefundWanted(rbRef) THEN AfterRefund(refundOk)
                 ELSE "rb_cancel"
    /\ sagaHist' = IF RefundWanted(rbRef)
                   THEN [sagaHist EXCEPT !.refunds = Append(@, rbRef),
                                         !.refund_failed = ~refundOk]
                   ELSE sagaHist
    /\ UNCHANGED <<billMsg, billing_id, payment_reference,
                   insurance_verified, rbRef, billings, stripeCount,
                   sagaCount>>

\* rollback_billing (2): mark the row CANCELLED.
RollbackCancel(outcome) ==
    /\ billPc = "rb_cancel"
    /\ billPc' = "rb_publish"
    /\ billings' = IF billing_id # None
                   THEN update_billing_status(billings, billing_id, FALSE,
                            None, "CANCELLED", outcome)
                   ELSE billings
    /\ sagaHist' = [sagaHist EXCEPT !.cancel = outcome]
    /\ UNCHANGED <<billMsg, billing_id, payment_reference,
                   insurance_verified, rbRef, stripeCount, sagaCount>>

\* rollback_billing (3) with callback going on to STEP 5 instead of
\* returning.
RollbackPublish_noReturn(publishOk) ==
    /\ billPc = "rb_publish"
    /\ billPc' = "publish_completed"
    /\ sagaHist' =
         IF billing_id # None /\ billMsg.incident_id # NoId
            /\ billMsg.patient_id # None
         THEN [sagaHist EXCEPT
                 !.attempted = Append(@, RK_BILLING_FAILED),
                 !.publish_failed = ~publishOk,
                 !.events = IF publishOk
                            THEN Append(@, BillingEvent(RK_BILLING_FAILED,
                                             "CANCELLED", None))
                            ELSE @]
         ELSE sagaHist
    /\ UNCHANGED <<billMsg, billing_id, payment_reference,
                   insurance_verified, rbRef, billings, stripeCount,
                   sagaCount>>

\* rollback_billing (3): publish event.billing.failed, then return to
\* callback, which returns.
RollbackPublish(publishOk) ==
    /\ billPc = "rb_publish"
    /\ SagaReturn(
         IF billing_id # None /\ billMsg.incident_id # NoId
            /\ billMsg.patient_id # None
         THEN [sagaHist EXCEPT
                 !.attempted = Append(@, RK_BILLING_FAILED),
                 !.publish_failed = ~publishOk,
                 !.events = IF publishOk
                            THEN Append(@, BillingEvent(RK_BILLING_FAILED,
                                             "CANCELLED", None))
                            ELSE @]
         ELSE sagaHist)
    /\ UNCHANGED <<billMsg, billing_id, payment_reference,
                   insurance_verified, rbRef, billings, stripeCount,
                   sagaCount>>

BillingStart ==
    \E m \in BillingMessages, createOk \in BOOLEAN : BillingCreate(m, createOk)

BillingStep2 == \E o \in InsuranceOutcomes : BillingInsurance(o)

BillingStep3 == \E outcome \in PaymentOutcomes : BillingPayment(outcome)

BillingStep4 == \E outcome \in DbOutcomes : BillingUpdatePaid(outcome)

BillingStep5 == \E publishOk \in BOOLEAN : BillingPublishCompleted(publishOk)

BillingRollback1 == \E refundOk \in BOOLEAN : RollbackRefund(refundOk)

BillingRollback2 == \E outcome \in DbOutcomes : RollbackCancel(outcome)

BillingRollback3 == \E publishOk \in BOOLEAN : RollbackPublish(publishOk)

(***************************************************************************)
(* Dispatch service (services/dispatch/src/app.py)                         *)
(***************************************************************************)
RK_PATIENT_VITALS == "dispatch.updates.patient_vitals"

Hospitals == {"hosp-1"}
NoHospital == "<none>"

\* Distances from the patient, in units of 0.0001 km (haversine_distance is
\* not computed: a row carries its distance).
DistValues == {10000, 10004, 25000}

CapacityValues == {2, 5}

\* The id of the i-th row of the hospitals table.
HospitalId(i) ==
    CASE i = 1 -> "hosp-1" [] i = 2 -> "hosp-2" [] i = 3 -> "hosp-3"
      [] OTHER -> "hosp-4"

\* The hospitals tables of at most n rows, in the order the SELECT returns
\* them.
RECURSIVE HospitalTables(_)
HospitalTables(n) ==
    IF n = 0 THEN {<<>>}
    ELSE LET shorter == HospitalTables(n - 1)
         IN  shorter \cup
             {Append(t, [id |-> HospitalId(n), dist |-> d, capacity |-> c]) :
                 t \in {u \in shorter : Len(u) = n - 1},
                 d \in DistValues, c \in CapacityValues}

\* What find_hospitals_via_google returns: a list sorted by distance, empty
\* without an API key, on an error or when nothing is found.
PlacesResults == {<<>>, <<[id |-> "place-1", dist |-> 5000]>>}

\* The id of the nearest hospital the places lookup returns.
PlacesResultsFirst == "place-1"

\* round(x, 3) of a value held in units of 0.0001: to the nearest multiple
\* of 10, halves to the even one.
Round3(x) ==
    LET q == x \div 10
        r == x % 10
    IN  IF r < 5 THEN 10 * q
        ELSE IF r > 5 THEN 10 * (q + 1)
        ELSE IF q % 2 = 0 THEN 10 * q ELSE 10 * (q + 1)

\* max(a, b)
Max2(a, b) == IF a >= b THEN a ELSE b

\* score = dist + max(0, 5 - capacity) * 0.5 - severity * 0.1
HospitalScore(h, severity) ==
    h.dist + Max2(0, 5 - h.capacity) * 5000 - severity * 1000

\* candidates.sort(key=lambda x: x["score"]) and candidates[0]: the sort is
\* stable and the key is the rounded score.
BestIndex(table, severity) ==
    CHOOSE i \in 1..Len(table) :
        \A j \in 1..Len(table) :
            LET ki == Round3(HospitalScore(table[i], severity))
                kj == Round3(HospitalScore(table[j], severity))
            IN  ki < kj \/ (ki = kj /\ i <= j)

\* pick_best_hospital: the id of the hospital returned (NoHospital: it
\* raises ValueError).
pick_best_hospital(table, places, severity) ==
    IF table # <<>> THEN table[BestIndex(table, severity)].id
    ELSE IF places = <<>> THEN NoHospital
    ELSE places[1].id

\* db.session.get(Hospital, hospital_id): the id of the row found
\* (NoHospital: None).
SessionGet(table, id) ==
    IF \E i \in 1..Len(table) : table[i].id = id THEN id ELSE NoHospital

\* callback: the hospital it dispatches to for a request without
\* hospital_id (NoHospital: pick_best_hospital raised, or the lookup of
\* the picked id found no row).
ResolveHospital(table, places) ==
    LET best == pick_best_hospital(table, places, 1)
    IN  IF best = NoHospital THEN NoHospital ELSE SessionGet(table, best)

\* cmd.dispatch.request_ambulance bodies.  loc_ok: "location" is present and
\* holds lat and lng.
DispatchMessages ==
    [json_ok : {TRUE}, command : {"request_ambulance", "other"},
     loc_ok : BOOLEAN, incident_id : {1}, patient_id : {1}]
    \cup
    {[json_ok |-> FALSE, command |-> "other", loc_ok |-> FALSE,
      incident_id |-> NoId, patient_id |-> NoId]}

\* str(uuid.uuid4()) of the n-th dispatch.
DispatchUuid(n) == 10 + n

DispatchEvent(rk, d, patient) ==
    [rk |-> rk, incident_id |-> d, dispatch_id |-> d, patient_id |-> patient]

\* The hospitals tables a request is handled over.
DispatchTables ==
    {<<>>} \cup {<<[id |-> h, dist |-> 10000, capacity |-> 5]>> : h \in Hospitals}

\* No run of callback yet.
NoRun ==
    [msg |-> [json_ok |-> FALSE, command |-> "none", loc_ok |-> FALSE,
              incident_id |-> NoId, patient_id |-> NoId],
     table_rows |-> 0, places_rows |-> 0, picked |-> NoHospital,
     dispatch_id |-> 0, raised |-> FALSE]

DispatchInit ==
    /\ dispatches = << >>
    /\ ACTIVE_DISPATCHES = << >>
    /\ SHOULD_STOP = FALSE
    /\ dispHandled = 0
    /\ dispLast = NoRun

\* callback: whether the workflow thread is started after the two publishes
\* whose results were uaOk and enOk.
WorkflowStarted(uaOk, enOk) == TRUE

RequestUsable_ignoresCommand(m) == m.json_ok /\ m.loc_ok

\* callback: whether it gets as far as resolving a hospital.
RequestUsable(m) ==
    m.json_ok /\ m.command = "request_ambulance" /\ m.loc_ok

\* callback.  table: the rows of the hospitals table; places: what the
\* places lookup returns.  uaOk, enOk: the results of publish_event, which
\* returns False when the publish fails.  Every exception is caught by the
\* handler's own except clause: nothing is raised to the consumer.
callback(m, table, places, uaOk, enOk) ==
    LET hospital == IF RequestUsable(m) THEN ResolveHospital(table, places)
                    ELSE NoHospital
        picked   == IF RequestUsable(m)
                    THEN pick_best_hospital(table, places, 1)
                    ELSE NoHospital
        accepted == RequestUsable(m) /\ hospital # NoHospital
        d        == DispatchUuid(dispHandled + 1)
    IN
    /\ ~SHOULD_STOP
    /\ dispHandled < MaxRequests
    /\ dispHandled' = dispHandled + 1
    /\ UNCHANGED <<ACTIVE_DISPATCHES, SHOULD_STOP>>
    /\ dispLast' = [msg |-> m, table_rows |-> Len(table),
                    places_rows |-> Len(places), picked |-> picked,
                    dispatch_id |-> IF accepted THEN d ELSE 0,
                    raised |-> FALSE]
    /\ IF ~accepted
       THEN UNCHANGED dispatches
       ELSE LET ua == IF uaOk
                      THEN <<DispatchEvent(RK_DISPATCH_UNIT_ASSIGNED, d,
                                           m.patient_id)>>
                      ELSE <<>>
                en == IF enOk
                      THEN <<DispatchEvent(RK_DISPATCH_ENROUTE, d,
                                           m.patient_id)>>
                      ELSE <<>>
            IN  dispatches' = dispatches @@ (d :>
                    [request_incident |-> m.incident_id,
                     patient_id |-> m.patient_id, hospital_id |-> hospital,
                     events |-> ua \o en,
                     wf |-> IF WorkflowStarted(uaOk, enOk)
                            THEN "connect" ELSE "none",
                     vit |-> "none", vitals_sent |-> 0])

SetDispatch(d, rec) == dispatches' = [dispatches EXCEPT ![d] = rec]

\* automated_ambulance_workflow: the dedicated connection.
WfConnect(d, ok) ==
    /\ dispatches[d].wf = "connect"
    /\ SetDispatch(d, [dispatches[d] EXCEPT !.wf = IF ok THEN "sleep5"
                                                  ELSE "ended"])
    /\ UNCHANGED <<ACTIVE_DISPATCHES, SHOULD_STOP, dispHandled, dispLast>>

\* automated_ambulance_workflow: after the 5 s sleep, publish
\* patient_onboard, register the dispatch and start the vitals thread.
WfOnboard(d, ok) ==
    /\ dispatches[d].wf = "sleep5"
    /\ IF ok
       THEN /\ SetDispatch(d, [dispatches[d] EXCEPT
                  !.events = Append(@, DispatchEvent(
                      RK_DISPATCH_PATIENT_ONBOARD, d, dispatches[d].patient_id)),
                  !.wf = "sleep10", !.vit = "connect"])
            /\ ACTIVE_DISPATCHES' =
                 [x \in DOMAIN ACTIVE_DISPATCHES \cup {d} |->
                    IF x = d
                    THEN [patient_id |-> dispatches[d].patient_id,
                          stop_monitoring |-> FALSE]
                    ELSE ACTIVE_DISPATCHES[x]]
       ELSE /\ SetDispatch(d, [dispatches[d] EXCEPT !.wf = "ended"])
            /\ UNCHANGED ACTIVE_DISPATCHES
    /\ UNCHANGED <<SHOULD_STOP, dispHandled, dispLast>>

\* automated_ambulance_workflow: after the 10 s sleep, set stop_monitoring.
WfStop(d) ==
    /\ dispatches[d].wf = "sleep10"
    /\ SetDispatch(d, [dispatches[d] EXCEPT !.wf = "arrive"])
    /\ ACTIVE_DISPATCHES' =
         IF d \in DOMAIN ACTIVE_DISPATCHES
         THEN [ACTIVE_DISPATCHES EXCEPT ![d].stop_monitoring = TRUE]
         ELSE ACTIVE_DISPATCHES
    /\ UNCHANGED <<SHOULD_STOP, dispHandled, dispLast>>

\* automated_ambulance_workflow: publish arrived_at_hospital and close the
\* connection.
WfArrive(d, ok) ==
    /\ dispatches[d].wf = "arrive"
    /\ SetDispatch(d, [dispatches[d] EXCEPT
          !.events = IF ok
                     THEN Append(@, DispatchEvent(RK_DISPATCH_ARRIVED, d,
                                                  dispatches[d].patient_id))
                     ELSE @,
          !.wf = "ended"])
    /\ UNCHANGED <<ACTIVE_DISPATCHES, SHOULD_STOP, dispHandled, dispLast>>

\* monitor_patient_vitals: the dedicated connection.
VitConnect(d, ok) ==
    /\ dispatches[d].vit = "connect"
    /\ SetDispatch(d, [dispatches[d] EXCEPT !.vit = IF ok THEN "check"
                                                   ELSE "exited"])
    /\ UNCHANGED <<ACTIVE_DISPATCHES, SHOULD_STOP, dispHandled, dispLast>>

\* A loop that never sees the flag.
StopRequested_never(d) == FALSE

\* monitor_patient_vitals: stop_flag.get("stop_monitoring", False), read
\* from the record of ACTIVE_DISPATCHES the thread fetched at its start.
StopRequested(d) ==
    d \in DOMAIN ACTIVE_DISPATCHES /\ ACTIVE_DISPATCHES[d].stop_monitoring

\* monitor_patient_vitals: the loop condition; leaving the loop closes the
\* thread's connection and ends the thread.
VitCheck(d) ==
    /\ dispatches[d].vit = "check"
    /\ SetDispatch(d, [dispatches[d] EXCEPT !.vit =
          IF StopRequested(d) THEN "exited" ELSE "publish"])
    /\ UNCHANGED <<ACTIVE_DISPATCHES, SHOULD_STOP, dispHandled, dispLast>>

\* monitor_patient_vitals: publish one vitals message and sleep 2 s; a
\* failed publish breaks out of the loop.  The messages are capped at
\* MaxVitals while the flag is unset; the iteration under way when the flag
\* is set still publishes.
VitPublish(d, ok) ==
    /\ dispatches[d].vit = "publish"
    /\ \/ dispatches[d].vitals_sent < MaxVitals
       \/ (d \in DOMAIN ACTIVE_DISPATCHES
             /\ ACTIVE_DISPATCHES[d].stop_monitoring
             /\ dispatches[d].vitals_sent < MaxVitals + 1)
    /\ SetDispatch(d, [dispatches[d] EXCEPT
          !.events = IF ok
                     THEN Append(@, DispatchEvent(RK_PATIENT_VITALS, d,
                                                  dispatches[d].patient_id))
                     ELSE @,
          !.vitals_sent = IF ok THEN @ + 1 ELSE @,
          !.vit = IF ok THEN "check" ELSE "exited"])
    /\ UNCHANGED <<ACTIVE_DISPATCHES, SHOULD_STOP, dispHandled, dispLast>>

\* signal_handler
signal_handler ==
    /\ ~SHOULD_STOP
    /\ SHOULD_STOP' = TRUE
    /\ ACTIVE_DISPATCHES' =
         [d \in DOMAIN ACTIVE_DISPATCHES |->
            [ACTIVE_DISPATCHES[d] EXCEPT !.stop_monitoring = TRUE]]
    /\ UNCHANGED <<dispatches, dispHandled, dispLast>>

DispatchDeliver ==
    \E m \in DispatchMessages, table \in DispatchTables,
       places \in PlacesResults, uaOk \in BOOLEAN, enOk \in BOOLEAN :
        callback(m, table, places, uaOk, enOk)

WorkflowConnect ==
    \E d \in DOMAIN dispatches, ok \in BOOLEAN : WfConnect(d, ok)

WorkflowOnboard ==
    \E d \in DOMAIN dispatches, ok \in BOOLEAN : WfOnboard(d, ok)

WorkflowStop == \E d \in DOMAIN dispatches : WfStop(d)

WorkflowArrive ==
    \E d \in DOMAIN dispatches, ok \in BOOLEAN : WfArrive(d, ok)

VitalsConnect ==
    \E d \in DOMAIN dispatches, ok \in BOOLEAN : VitConnect(d, ok)

VitalsCheck == \E d \in DOMAIN dispatches : VitCheck(d)

VitalsPublish ==
    \E d \in DOMAIN dispatches, ok \in BOOLEAN : VitPublish(d, ok)

Signal == signal_handler

\* Nothing published yet, nothing queued, no call failed.
NetInit ==
    /\ wearQ = <<>>
    /\ dispQ = <<>>
    /\ billQ = <<>>
    /\ routed = [triage |-> 0, pubs |-> {}, events |-> {}, outcomes |-> <<>>]
    /\ faults = 0

\* No thread in publish_initiate_billing, no consumer loop followed.
StudyIdle ==
    /\ ledgerLock = 0
    /\ thr = << >>
    /\ consumer = << >>

\* No function call under study.
FnIdle ==
    /\ fnIn = "none"
    /\ fnOut = "none"
    /\ StudyIdle

Init ==
    /\ TriageInit
    /\ EmInit
    /\ BillingInit
    /\ DispatchInit
    /\ NetInit
    /\ FnIdle

\* Temperatures are in tenths of a degree Celsius.
TempValues == {Missing, 349, 370, 380, 391}

RespValues == {Missing, 7, 16, 26, 31}

\* The "metrics" objects handed to determine_triage_status.
ClassifyInputs ==
    [heartRateBpm : HRValues \cup {45, 110, 151},
     spO2Percentage : SpO2Values,
     bodyTemperatureCelsius : TempValues,
     respirationRateBpm : RespValues]

InitClassify ==
    /\ TriageInit
    /\ EmInit
    /\ BillingInit
    /\ DispatchInit
    /\ NetInit
    /\ fnIn \in ClassifyInputs
    /\ fnOut = "none"
    /\ StudyIdle

\* One call determine_triage_status(metrics).
Classify ==
    /\ fnOut = "none"
    /\ fnOut' = determine_triage_status(fnIn)
    /\ UNCHANGED <<fnIn, ledgerLock, thr, consumer>>

NextClassify ==
    \/ Classify /\ UNCHANGED <<triageVars, emVars, billVars, dispVars,
                              netVars>>

SpecClassify == InitClassify /\ [][NextClassify]_vars

SeverityValues == {1, 5}

InitHospital ==
    /\ TriageInit
    /\ EmInit
    /\ BillingInit
    /\ DispatchInit
    /\ NetInit
    /\ fnIn \in [table : HospitalTables(MaxTable), places : PlacesResults,
                 severity : SeverityValues]
    /\ fnOut = "none"
    /\ StudyIdle

\* One call pick_best_hospital(patient_loc, severity).
PickHospital ==
    /\ fnOut = "none"
    /\ fnOut' = pick_best_hospital(fnIn.table, fnIn.places, fnIn.severity)
    /\ UNCHANGED <<fnIn, ledgerLock, thr, consumer>>

NextHospital ==
    \/ PickHospital /\ UNCHANGED <<triageVars, emVars, billVars, dispVars,
                              netVars>>

SpecHospital == InitHospital /\ [][NextHospital]_vars

NextTriage ==
    \/ TriageDeliver /\ UNCHANGED <<emVars, billVars, dispVars, fnVars, netVars>>

NextEm ==
    \/ EmEnqueue /\ UNCHANGED <<triageVars, billVars, dispVars, fnVars, netVars>>
    \/ EmHandleTriage /\ UNCHANGED <<triageVars, billVars, dispVars, fnVars, netVars>>
    \/ EmHandleDispatch /\ UNCHANGED <<triageVars, billVars, dispVars, fnVars, netVars>>
    \/ EmHandleBilling /\ UNCHANGED <<triageVars, billVars, dispVars, fnVars, netVars>>

NextBilling ==
    \/ BillingStart /\ UNCHANGED <<triageVars, emVars, dispVars, fnVars, netVars>>
    \/ BillingStep2 /\ UNCHANGED <<triageVars, emVars, dispVars, fnVars, netVars>>
    \/ BillingStep3 /\ UNCHANGED <<triageVars, emVars, dispVars, fnVars, netVars>>
    \/ BillingStep4 /\ UNCHANGED <<triageVars, emVars, dispVars, fnVars, netVars>>
    \/ BillingStep5 /\ UNCHANGED <<triageVars, emVars, dispVars, fnVars, netVars>>
    \/ BillingRollback1 /\ UNCHANGED <<triageVars, emVars, dispVars, fnVars, netVars>>
    \/ BillingRollback2 /\ UNCHANGED <<triageVars, emVars, dispVars, fnVars, netVars>>
    \/ BillingRollback3 /\ UNCHANGED <<triageVars, emVars, dispVars, fnVars, netVars>>

NextDispatch ==
    \/ DispatchDeliver /\ UNCHANGED <<triageVars, emVars, billVars, fnVars, netVars>>
    \/ WorkflowConnect /\ UNCHANGED <<triageVars, emVars, billVars, fnVars, netVars>>
    \/ WorkflowOnboard /\ UNCHANGED <<triageVars, emVars, billVars, fnVars, netVars>>
    \/ WorkflowStop /\ UNCHANGED <<triageVars, emVars, billVars, fnVars, netVars>>
    \/ WorkflowArrive /\ UNCHANGED <<triageVars, emVars, billVars, fnVars, netVars>>
    \/ VitalsConnect /\ UNCHANGED <<triageVars, emVars, billVars, fnVars, netVars>>
    \/ VitalsCheck /\ UNCHANGED <<triageVars, emVars, billVars, fnVars, netVars>>
    \/ VitalsPublish /\ UNCHANGED <<triageVars, emVars, billVars, fnVars, netVars>>
    \/ Signal /\ UNCHANGED <<triageVars, emVars, billVars, fnVars, netVars>>

(***************************************************************************)
(* The services joined by the broker: from a wearable reading to the       *)
(* dispatch service, with no call failing                                  *)
(***************************************************************************)

\* The routing keys the Dispatch queue is bound to (a topic exchange
\* matches a key without wildcards literally).
DISPATCH_BINDINGS == {"wearable.data", "event.dispatch"}

RK_WEARABLE_DATA == "wearable.data"

DispatchQueueBound(rk) == rk \in DISPATCH_BINDINGS

\* The triage event as the events manager reads it: the event carries
\* user_id, so payload.get("patient_id") is None, and status is the
\* classifier's string.
TriageEventAsEmMessage(e) ==
    [rk |-> e.routing_key, json_ok |-> TRUE, incident_id |-> e.incident_id,
     patient_id |-> NoId, status |-> e.status]

\* A wearable reading as the dispatch callback reads it: JSON without a
\* "command" key.
WearableAsDispatchMessage(body) ==
    [json_ok |-> body.json_ok, command |-> "other", loc_ok |-> TRUE,
     incident_id |-> NoId, patient_id |-> NoId]

\* A publication of the events manager as the dispatch callback reads it;
\* the location is the one the wearable reading carried.
EmPubAsDispatchMessage(pub) ==
    [json_ok |-> TRUE,
     command |-> IF pub.rk = RK_DISPATCH_REQUEST THEN "request_ambulance"
                 ELSE "other",
     loc_ok |-> TRUE, incident_id |-> pub.incident_id,
     patient_id |-> pub.patient_id]

\* The wearable publishes one reading with routing key wearable.data: the
\* broker copies it to every queue bound to that key.  A reading may be
\* followed by a request in the Dispatch queue, so two deliveries to
\* callback are kept for each.
WearablePublish ==
    \E body \in {b \in WearableBodies : b.json_ok} :
        /\ 2 * (Len(triageLog) + Len(wearQ) + 1) <= MaxRequests
        /\ wearQ' = Append(wearQ, body)
        /\ dispQ' = IF DispatchQueueBound(RK_WEARABLE_DATA)
                    THEN Append(dispQ, WearableAsDispatchMessage(body))
                    ELSE dispQ
        /\ UNCHANGED <<billQ, routed, faults>>

\* Triage consumes the next reading.
PipeTriage ==
    /\ wearQ # <<>>
    /\ process_message(Head(wearQ), TRUE)
    /\ wearQ' = Tail(wearQ)
    /\ UNCHANGED <<dispQ, billQ, routed, faults>>

\* The broker routes the next triage event to the events manager's queue
\* bound to its routing key, if there is one.
RouteTriageEvent ==
    /\ routed.triage < Len(triagePublished)
    /\ LET e == triagePublished[routed.triage + 1]
       IN  emPending' = IF EmQueueOf(e.routing_key) # "none"
                        THEN emPending \cup {TriageEventAsEmMessage(e)}
                        ELSE emPending
    /\ routed' = [routed EXCEPT !.triage = @ + 1]
    /\ UNCHANGED <<billing_initiated_incidents, emPublished, emAcked, emLast,
                   emTriageSeen, emDeliveries>>
    /\ UNCHANGED <<wearQ, dispQ, billQ, faults>>

\* The events manager consumes one triage event.
PipeEm ==
    \E m \in emPending :
        /\ EmQueueOf(m.rk) = Q_TRIAGE_ACTIONABLE
        /\ on_triage_status(m, TRUE, TRUE)

\* The broker routes one publication of the events manager: to the Dispatch
\* queue when the queue is bound to its routing key, to the Billings queue
\* when it is cmd.billing.initiate.
RouteEmPublication ==
    \E pub \in DOMAIN emPublished \ routed.pubs :
        /\ routed' = [routed EXCEPT !.pubs = @ \cup {pub}]
        /\ dispQ' = IF DispatchQueueBound(pub.rk)
                    THEN Append(dispQ, EmPubAsDispatchMessage(pub))
                    ELSE dispQ
        /\ billQ' = IF pub.rk = RK_BILLING_INITIATE
                    THEN Append(billQ, pub)
                    ELSE billQ
        /\ UNCHANGED <<wearQ, faults>>

\* The dispatch service consumes the next message of the Dispatch queue,
\* over a seeded hospitals table.
PipeDispatch ==
    /\ dispQ # <<>>
    /\ \E table \in DispatchTables \ {<<>>}, places \in PlacesResults :
           callback(Head(dispQ), table, places, TRUE, TRUE)
    /\ dispQ' = Tail(dispQ)
    /\ UNCHANGED <<wearQ, billQ, routed, faults>>

NextPipeline ==
    \/ WearablePublish
         /\ UNCHANGED <<triageVars, emVars, billVars, dispVars, fnVars>>
    \/ PipeTriage /\ UNCHANGED <<emVars, billVars, dispVars, fnVars>>
    \/ RouteTriageEvent /\ UNCHANGED <<triageVars, billVars, dispVars, fnVars>>
    \/ PipeEm /\ UNCHANGED <<triageVars, billVars, dispVars, fnVars, netVars>>
    \/ RouteEmPublication
         /\ UNCHANGED <<triageVars, emVars, billVars, dispVars, fnVars>>
    \/ PipeDispatch /\ UNCHANGED <<triageVars, emVars, billVars, fnVars>>

\* Every consumer and the broker keep running: a step that stays possible
\* is eventually taken.
PipelineFairness ==
    /\ WF_vars(PipeTriage /\ UNCHANGED <<emVars, billVars, dispVars, fnVars>>)
    /\ WF_vars(RouteTriageEvent
                 /\ UNCHANGED <<triageVars, billVars, dispVars, fnVars>>)
    /\ WF_vars(PipeEm
                 /\ UNCHANGED <<triageVars, billVars, dispVars, fnVars,
                                netVars>>)
    /\ WF_vars(RouteEmPublication
                 /\ UNCHANGED <<triageVars, emVars, billVars, dispVars,
                                fnVars>>)
    /\ WF_vars(PipeDispatch
                 /\ UNCHANGED <<triageVars, emVars, billVars, fnVars>>)

SpecPipeline == Init /\ [][NextPipeline]_vars /\ PipelineFairness

(***************************************************************************)
(* The services joined by the broker: from an accepted dispatch to the     *)
(* billing outcome, with at most MaxFaults calls failing                   *)
(***************************************************************************)

\* n more calls fail.
Fail(n) ==
    /\ faults + n <= MaxFaults
    /\ faults' = faults + n

Bit(ok) == IF ok THEN 0 ELSE 1

\* A dispatch event as the events manager reads it.
DispatchEventAsEmMessage(e) ==
    [rk |-> e.rk, json_ok |-> TRUE, incident_id |-> e.incident_id,
     patient_id |-> e.patient_id, status |-> NoStatus]

\* cmd.billing.initiate as the billing callback reads it: the command
\* carries no amount (the default 100 is used) and no simulate_failure.
EmPubAsBillingMessage(pub) ==
    [json_ok |-> TRUE, incident_id |-> pub.incident_id,
     patient_id |-> pub.patient_id, amount_ok |-> TRUE,
     simulate_failure |-> FALSE]

\* The events the current saga publishes in this step.
NewSagaEvents ==
    SubSeq(sagaHist'.events, Len(sagaHist.events) + 1, Len(sagaHist'.events))

\* A request_ambulance command that can be dispatched reaches callback; one
\* incident is followed from its request to its billing.
IncRequest ==
    \E m \in {x \in DispatchMessages : RequestUsable(x)},
       table \in DispatchTables \ {<<>>}, uaOk \in BOOLEAN, enOk \in BOOLEAN :
        /\ DOMAIN dispatches = {}
        /\ callback(m, table, <<>>, uaOk, enOk)
        /\ Fail(Bit(uaOk) + Bit(enOk))
        /\ UNCHANGED <<wearQ, dispQ, billQ, routed>>

IncWorkflowConnect ==
    \E d \in DOMAIN dispatches, ok \in BOOLEAN :
        /\ WfConnect(d, ok)
        /\ Fail(Bit(ok))
        /\ UNCHANGED <<wearQ, dispQ, billQ, routed>>

IncWorkflowOnboard ==
    \E d \in DOMAIN dispatches, ok \in BOOLEAN :
        /\ WfOnboard(d, ok)
        /\ Fail(Bit(ok))
        /\ UNCHANGED <<wearQ, dispQ, billQ, routed>>

IncWorkflowArrive ==
    \E d \in DOMAIN dispatches, ok \in BOOLEAN :
        /\ WfArrive(d, ok)
        /\ Fail(Bit(ok))
        /\ UNCHANGED <<wearQ, dispQ, billQ, routed>>

\* The broker routes the next event of a dispatch to the events manager's
\* queue bound to its routing key.
RouteDispatchEvent ==
    \E d \in DOMAIN dispatches :
        LET k == Cardinality({x \in routed.events : x[1] = d}) + 1
        IN  /\ k <= Len(dispatches[d].events)
            /\ routed' = [routed EXCEPT !.events = @ \cup {<<d, k>>}]
            /\ emPending' =
                 IF EmQueueOf(dispatches[d].events[k].rk) # "none"
                 THEN emPending \cup
                        {DispatchEventAsEmMessage(dispatches[d].events[k])}
                 ELSE emPending
            /\ UNCHANGED <<billing_initiated_incidents, emPublished, emAcked,
                           emLast, emTriageSeen, emDeliveries>>
            /\ UNCHANGED <<wearQ, dispQ, billQ, faults>>

\* The events manager consumes one dispatch event.
IncEm ==
    \E m \in emPending, alertOk \in BOOLEAN, billingOk \in BOOLEAN :
        /\ EmQueueOf(m.rk) = Q_DISPATCH_STATUS
        /\ on_dispatch_update(m, alertOk, billingOk)
        /\ Fail(IF alertOk /\ billingOk THEN 0 ELSE 1)
        /\ UNCHANGED <<wearQ, dispQ, billQ, routed>>

\* The billing service consumes the next command (auto_ack: the broker
\* forgets it on delivery).
IncBillingStart ==
    \E createOk \in BOOLEAN :
        /\ billQ # <<>>
        /\ BillingCreate(EmPubAsBillingMessage(Head(billQ)), createOk)
        /\ billQ' = Tail(billQ)
        /\ Fail(Bit(createOk))
        /\ UNCHANGED <<wearQ, dispQ, routed>>

IncBillingStep2 ==
    \E o \in InsuranceOutcomes :
        /\ BillingInsurance(o)
        /\ Fail(IF o.kind = "response" /\ o.status_code # 500 THEN 0 ELSE 1)
        /\ UNCHANGED <<wearQ, dispQ, billQ, routed>>

IncBillingStep3 ==
    \E outcome \in PaymentOutcomes :
        /\ BillingPayment(outcome)
        /\ Fail(IF outcome = "error" THEN 1 ELSE 0)
        /\ UNCHANGED <<wearQ, dispQ, billQ, routed>>

IncBillingStep4 ==
    \E outcome \in DbOutcomes :
        /\ BillingUpdatePaid(outcome)
        /\ Fail(IF outcome = "OK" THEN 0 ELSE 1)
        /\ UNCHANGED <<wearQ, dispQ, billQ, routed>>

IncBillingStep5 ==
    \E publishOk \in BOOLEAN :
        /\ BillingPublishCompleted(publishOk)
        /\ Fail(Bit(publishOk))
        /\ routed' = [routed EXCEPT !.outcomes = @ \o NewSagaEvents]
        /\ UNCHANGED <<wearQ, dispQ, billQ>>

IncRollback1 ==
    \E refundOk \in BOOLEAN :
        /\ RollbackRefund(refundOk)
        /\ Fail(Bit(refundOk))
        /\ UNCHANGED <<wearQ, dispQ, billQ, routed>>

IncRollback2 ==
    \E outcome \in DbOutcomes :
        /\ RollbackCancel(outcome)
        /\ Fail(IF outcome = "OK" THEN 0 ELSE 1)
        /\ UNCHANGED <<wearQ, dispQ, billQ, routed>>

IncRollback3 ==
    \E publishOk \in BOOLEAN :
        /\ RollbackPublish(publishOk)
        /\ Fail(Bit(publishOk))
        /\ routed' = [routed EXCEPT !.outcomes = @ \o NewSagaEvents]
        /\ UNCHANGED <<wearQ, dispQ, billQ>>

IncStepRequest ==
    IncRequest /\ UNCHANGED <<triageVars, emVars, billVars, fnVars>>
IncStepConnect ==
    IncWorkflowConnect /\ UNCHANGED <<triageVars, emVars, billVars, fnVars>>
IncStepOnboard ==
    IncWorkflowOnboard /\ UNCHANGED <<triageVars, emVars, billVars, fnVars>>
IncStepStop ==
    WorkflowStop /\ UNCHANGED <<triageVars, emVars, billVars, fnVars, netVars>>
IncStepArrive ==
    IncWorkflowArrive /\ UNCHANGED <<triageVars, emVars, billVars, fnVars>>
IncStepRouteEvent ==
    RouteDispatchEvent /\ UNCHANGED <<triageVars, billVars, dispVars, fnVars>>
IncStepEm ==
    IncEm /\ UNCHANGED <<triageVars, billVars, dispVars, fnVars>>
IncStepRoutePub ==
    RouteEmPublication
      /\ UNCHANGED <<triageVars, emVars, billVars, dispVars, fnVars>>
IncStepBilling1 ==
    IncBillingStart /\ UNCHANGED <<triageVars, emVars, dispVars, fnVars>>
IncStepBilling2 ==
    IncBillingStep2 /\ UNCHANGED <<triageVars, emVars, dispVars, fnVars>>
IncStepBilling3 ==
    IncBillingStep3 /\ UNCHANGED <<triageVars, emVars, dispVars, fnVars>>
IncStepBilling4 ==
    IncBillingStep4 /\ UNCHANGED <<triageVars, emVars, dispVars, fnVars>>
IncStepBilling5 ==
    IncBillingStep5 /\ UNCHANGED <<triageVars, emVars, dispVars, fnVars>>
IncStepRollback1 ==
    IncRollback1 /\ UNCHANGED <<triageVars, emVars, dispVars, fnVars>>
IncStepRollback2 ==
    IncRollback2 /\ UNCHANGED <<triageVars, emVars, dispVars, fnVars>>
IncStepRollback3 ==
    IncRollback3 /\ UNCHANGED <<triageVars, emVars, dispVars, fnVars>>

NextIncident ==
    \/ IncStepRequest
    \/ IncStepConnect
    \/ IncStepOnboard
    \/ IncStepStop
    \/ IncStepArrive
    \/ IncStepRouteEvent
    \/ IncStepEm
    \/ IncStepRoutePub
    \/ IncStepBilling1
    \/ IncStepBilling2
    \/ IncStepBilling3
    \/ IncStepBilling4
    \/ IncStepBilling5
    \/ IncStepRollback1
    \/ IncStepRollback2
    \/ IncStepRollback3

\* Threads, consumers and the broker keep running; only the arrival of a
\* request is left to the environment.
IncidentFairness ==
    /\ WF_vars(IncStepConnect)
    /\ WF_vars(IncStepOnboard)
    /\ WF_vars(IncStepStop)
    /\ WF_vars(IncStepArrive)
    /\ WF_vars(IncStepRouteEvent)
    /\ WF_vars(IncStepEm)
    /\ WF_vars(IncStepRoutePub)
    /\ WF_vars(IncStepBilling1)
    /\ WF_vars(IncStepBilling2)
    /\ WF_vars(IncStepBilling3)
    /\ WF_vars(IncStepBilling4)
    /\ WF_vars(IncStepBilling5)
    /\ WF_vars(IncStepRollback1)
    /\ WF_vars(IncStepRollback2)
    /\ WF_vars(IncStepRollback3)

SpecIncident == Init /\ [][NextIncident]_vars /\ IncidentFairness

(***************************************************************************)
(* publish_initiate_billing run by several threads                         *)
(* (services/events-manager/src/amqp_setup.py)                             *)
(***************************************************************************)
Threads == 1..MaxThreads

InitLedger ==
    /\ TriageInit
    /\ EmInit
    /\ BillingInit
    /\ DispatchInit
    /\ NetInit
    /\ fnIn = "none"
    /\ fnOut = "none"
    /\ ledgerLock = 0
    /\ thr \in [Threads -> [pc : {"acquire"}, incident_id : Incidents]]
    /\ consumer = << >>

\* What a thread step leaves alone besides the lock, the ledger and the
\* publications.
ThrFrame ==
    UNCHANGED <<emPending, emAcked, emLast, emTriageSeen, emDeliveries,
                fnIn, fnOut, consumer>>

ThrGoto(t, pc) == thr' = [thr EXCEPT ![t].pc = pc]

\* A lock that any thread may take at any time.
LockAvailable_noExclusion(t) == TRUE

\* threading.Lock: acquire succeeds when no thread holds it.
LockAvailable(t) == ledgerLock = 0

\* with self._dedup_lock: (entry)
ThrAcquire(t) ==
    /\ thr[t].pc = "acquire"
    /\ LockAvailable(t)
    /\ ledgerLock' = t
    /\ ThrGoto(t, "check")
    /\ UNCHANGED <<billing_initiated_incidents, emPublished>>
    /\ ThrFrame

\* if incident_id in self._billing_initiated_incidents: return
ThrCheck(t) ==
    /\ thr[t].pc = "check"
    /\ ThrGoto(t, IF thr[t].incident_id \in billing_initiated_incidents
                  THEN "release_return" ELSE "insert")
    /\ UNCHANGED <<billing_initiated_incidents, emPublished, ledgerLock>>
    /\ ThrFrame

\* self._billing_initiated_incidents.add(incident_id)
ThrInsert(t) ==
    /\ thr[t].pc = "insert"
    /\ billing_initiated_incidents' =
         billing_initiated_incidents \cup {thr[t].incident_id}
    /\ ThrGoto(t, "release_publish")
    /\ UNCHANGED <<emPublished, ledgerLock>>
    /\ ThrFrame

\* Leaving the with block, by the return or at its end.
ThrRelease(t) ==
    /\ thr[t].pc \in {"release_return", "release_publish"}
    /\ ledgerLock' = 0
    /\ ThrGoto(t, IF thr[t].pc = "release_return" THEN "skipped"
                  ELSE "publish")
    /\ UNCHANGED <<billing_initiated_incidents, emPublished>>
    /\ ThrFrame

\* self.publish(self.RK_BILLING_INITIATE, ...)
ThrPublish(t, ok) ==
    /\ thr[t].pc = "publish"
    /\ emPublished' =
         IF ok
         THEN BagAdd(emPublished,
                     Pub(RK_BILLING_INITIATE, thr[t].incident_id, "", 1))
         ELSE emPublished
    /\ ThrGoto(t, IF ok THEN "published" ELSE "raised")
    /\ UNCHANGED <<billing_initiated_incidents, ledgerLock>>
    /\ ThrFrame

LedgerAcquire == \E t \in DOMAIN thr : ThrAcquire(t)
LedgerCheck == \E t \in DOMAIN thr : ThrCheck(t)
LedgerInsert == \E t \in DOMAIN thr : ThrInsert(t)
LedgerRelease == \E t \in DOMAIN thr : ThrRelease(t)
LedgerPublish == \E t \in DOMAIN thr, ok \in BOOLEAN : ThrPublish(t, ok)

NextLedger ==
    \/ LedgerAcquire /\ UNCHANGED <<triageVars, billVars, dispVars, netVars>>
    \/ LedgerCheck /\ UNCHANGED <<triageVars, billVars, dispVars, netVars>>
    \/ LedgerInsert /\ UNCHANGED <<triageVars, billVars, dispVars, netVars>>
    \/ LedgerRelease /\ UNCHANGED <<triageVars, billVars, dispVars, netVars>>
    \/ LedgerPublish /\ UNCHANGED <<triageVars, billVars, dispVars, netVars>>

SpecLedger == InitLedger /\ [][NextLedger]_vars

(***************************************************************************)
(* One dispatch, its workflow thread and its vitals thread, each running   *)
(***************************************************************************)

\* callback, while no dispatch has been accepted yet.
LifeDeliver ==
    /\ DOMAIN dispatches = {}
    /\ DispatchDeliver

LifeStepDeliver ==
    LifeDeliver /\ UNCHANGED <<triageVars, emVars, billVars, fnVars, netVars>>
LifeStepWfConnect ==
    WorkflowConnect
      /\ UNCHANGED <<triageVars, emVars, billVars, fnVars, netVars>>
LifeStepWfOnboard ==
    WorkflowOnboard
      /\ UNCHANGED <<triageVars, emVars, billVars, fnVars, netVars>>
LifeStepWfStop ==
    WorkflowStop /\ UNCHANGED <<triageVars, emVars, billVars, fnVars, netVars>>
LifeStepWfArrive ==
    WorkflowArrive
      /\ UNCHANGED <<triageVars, emVars, billVars, fnVars, netVars>>
LifeStepVitConnect ==
    VitalsConnect
      /\ UNCHANGED <<triageVars, emVars, billVars, fnVars, netVars>>
LifeStepVitCheck ==
    VitalsCheck /\ UNCHANGED <<triageVars, emVars, billVars, fnVars, netVars>>
LifeStepVitPublish ==
    VitalsPublish
      /\ UNCHANGED <<triageVars, emVars, billVars, fnVars, netVars>>
LifeStepSignal ==
    Signal /\ UNCHANGED <<triageVars, emVars, billVars, fnVars, netVars>>

NextLifecycle ==
    \/ LifeStepDeliver
    \/ LifeStepWfConnect
    \/ LifeStepWfOnboard
    \/ LifeStepWfStop
    \/ LifeStepWfArrive
    \/ LifeStepVitConnect
    \/ LifeStepVitCheck
    \/ LifeStepVitPublish
    \/ LifeStepSignal

\* The threads are scheduled and their sleeps and broker calls return.
LifecycleFairness ==
    /\ WF_vars(LifeStepWfConnect)
    /\ WF_vars(LifeStepWfOnboard)
    /\ WF_vars(LifeStepWfStop)
    /\ WF_vars(LifeStepWfArrive)
    /\ WF_vars(LifeStepVitConnect)
    /\ WF_vars(LifeStepVitCheck)
    /\ WF_vars(LifeStepVitPublish)

SpecLifecycle == Init /\ [][NextLifecycle]_vars /\ LifecycleFairness

(***************************************************************************)
(* The consumer loops of the three components and broker connection loss   *)
(***************************************************************************)
Components == {"events-manager", "dispatch", "billing"}

\* A consumer loop just after its basic_consume calls.
ConsumerStart ==
    [pc |-> "consuming", registered |-> TRUE, stopping |-> FALSE,
     published |-> 0, consumed |-> 0, losses |-> 0,
     last_loss |-> "none", reconnects |-> 0, reconnects_stopping |-> 0]

InitConsumer ==
    /\ TriageInit
    /\ EmInit
    /\ BillingInit
    /\ DispatchInit
    /\ NetInit
    /\ fnIn = "none"
    /\ fnOut = "none"
    /\ ledgerLock = 0
    /\ thr = << >>
    /\ consumer = [c \in Components |-> ConsumerStart]

\* The loss as the loop sees it: the consumer registered on the lost
\* channel is gone.
LossSeen(rec, reachable) ==
    [rec EXCEPT !.registered = FALSE,
                !.losses = @ + 1,
                !.last_loss = IF rec.stopping THEN "stopping"
                              ELSE IF reachable THEN "running"
                              ELSE "unreachable"]

\* AMQPSetup.start_consumers (events-manager): the except clause prints
\* and the method returns; _start_consumer, the thread's target, ends.
start_consumers_loss(rec, reachable) ==
    [LossSeen(rec, reachable) EXCEPT !.pc = "exited"]

\* consume (dispatch): the except clause calls amqp.connect() and goes
\* back to the while test; basic_consume is not called again.  A connect
\* that raises leaves through the outer except.
dispatch_consume_loss(rec, reachable) ==
    LET seen == LossSeen(rec, reachable)
    IN  IF ~reachable THEN [seen EXCEPT !.pc = "exited"]
        ELSE [seen EXCEPT
                !.reconnects = @ + 1,
                !.reconnects_stopping =
                    IF rec.stopping THEN @ + 1 ELSE @,
                !.pc = IF rec.stopping THEN "exited" ELSE "consuming"]

\* consume (billings): break when should_stop, otherwise amqp.connect()
\* and basic_consume again.  A connect that raises leaves through the
\* outer except.
billing_consume_loss(rec, reachable) ==
    LET seen == LossSeen(rec, reachable)
    IN  IF rec.stopping \/ ~reachable THEN [seen EXCEPT !.pc = "exited"]
        ELSE [seen EXCEPT !.reconnects = @ + 1,
                          !.registered = TRUE,
                          !.pc = "consuming"]

ConsumerFrame ==
    UNCHANGED <<triageVars, emVars, billVars, dispVars, netVars,
                fnIn, fnOut, ledgerLock, thr>>

\* The loop's blocking call raises a connection error.
ConsumerLoss(c, reachable) ==
    /\ consumer[c].pc = "consuming"
    /\ consumer[c].losses < MaxLosses
    /\ consumer' = [consumer EXCEPT ![c] =
         IF c = "events-manager" THEN start_consumers_loss(@, reachable)
         ELSE IF c = "dispatch" THEN dispatch_consume_loss(@, reachable)
         ELSE billing_consume_loss(@, reachable)]
    /\ ConsumerFrame

\* A message is published to the component's queue.
ConsumerPublish(c) ==
    /\ consumer[c].published < MaxBacklog
    /\ consumer' = [consumer EXCEPT ![c].published = @ + 1]
    /\ ConsumerFrame

\* The broker delivers a queued message to a registered consumer.
ConsumerDeliver(c) ==
    /\ consumer[c].pc = "consuming"
    /\ consumer[c].registered
    /\ consumer[c].consumed < consumer[c].published
    /\ consumer' = [consumer EXCEPT ![c].consumed = @ + 1]
    /\ ConsumerFrame

\* The component's signal handler: should_stop, SHOULD_STOP, _closing.
ConsumerSignal(c) ==
    /\ ~consumer[c].stopping
    /\ consumer' = [consumer EXCEPT ![c].stopping = TRUE]
    /\ ConsumerFrame

\* The loop ends on its own once the component is stopping.
ConsumerLeave(c) ==
    /\ consumer[c].pc = "consuming"
    /\ consumer[c].stopping
    /\ consumer' = [consumer EXCEPT ![c].pc = "exited",
                                    ![c].registered = FALSE]
    /\ ConsumerFrame

ConsumerStepLoss ==
    \E c \in DOMAIN consumer, reachable \in BOOLEAN : ConsumerLoss(c, reachable)
ConsumerStepPublish == \E c \in DOMAIN consumer : ConsumerPublish(c)
ConsumerStepDeliver == \E c \in DOMAIN consumer : ConsumerDeliver(c)
ConsumerStepSignal == \E c \in DOMAIN consumer : ConsumerSignal(c)
ConsumerStepLeave == \E c \in DOMAIN consumer : ConsumerLeave(c)

NextConsumer ==
    \/ ConsumerStepLoss
    \/ ConsumerStepPublish
    \/ ConsumerStepDeliver
    \/ ConsumerStepSignal
    \/ ConsumerStepLeave

SpecConsumer == InitConsumer /\ [][NextConsumer]_vars

(***************************************************************************)
(* One publish call on a channel that may have been closed                 *)
(***************************************************************************)

\* channel: "open" (is_open, basic_publish works), "closed" (is_open is
\* False), "stale" (is_open still True, basic_publish raises because the
\* channel was closed underneath).  reachable: whether connect() succeeds.
\* fresh_ok: whether basic_publish works on a channel connect() just made.
ChannelStates == {"open", "closed", "stale"}

PublishInputs ==
    [component : {"events-manager"},
     rk : {RK_SEND_ALERT, RK_DISPATCH_REQUEST, RK_BILLING_INITIATE},
     channel : ChannelStates, reachable : BOOLEAN, fresh_ok : BOOLEAN]
    \cup
    [component : {"billing"}, is_success : BOOLEAN,
     kind : {"bytes", "str", "dict"},
     channel : ChannelStates, reachable : BOOLEAN, fresh_ok : BOOLEAN]

\* What one call did: basic_publish calls, connect() calls, whether the
\* message went out, and how the call ended.
PublishResult(attempts, reconnects, published, outcome) ==
    [attempts |-> attempts, reconnects |-> reconnects,
     published |-> published, outcome |-> outcome]

\* AMQPSetup.publish with AMQPSetup._ch (events-manager): connect() only
\* if the channel is missing or not open (connect() ends the process when
\* its 60 s run out), then one basic_publish whose exception is not caught.
publish(in) ==
    IF in.channel = "closed"
    THEN IF ~in.reachable THEN PublishResult(0, 1, FALSE, "process_exit")
         ELSE IF in.fresh_ok THEN PublishResult(1, 1, TRUE, "returned")
         ELSE PublishResult(1, 1, FALSE, "raised")
    ELSE IF in.channel = "open" THEN PublishResult(1, 0, TRUE, "returned")
    ELSE PublishResult(1, 0, FALSE, "raised")

\* AMQPSetup.publish_status_update (billings): the same steps inside one
\* try whose except returns False.
publish_status_update(in) ==
    IF in.channel = "closed"
    THEN IF ~in.reachable THEN PublishResult(0, 1, FALSE, "returned_false")
         ELSE IF in.fresh_ok THEN PublishResult(1, 1, TRUE, "returned_true")
         ELSE PublishResult(1, 1, FALSE, "returned_false")
    ELSE IF in.channel = "open"
    THEN PublishResult(1, 0, TRUE, "returned_true")
    ELSE PublishResult(1, 0, FALSE, "returned_false")

InitPublish ==
    /\ TriageInit
    /\ EmInit
    /\ BillingInit
    /\ DispatchInit
    /\ NetInit
    /\ fnIn \in PublishInputs
    /\ fnOut = PublishResult(0, 0, FALSE, "not_called")
    /\ StudyIdle

PublishEm ==
    /\ fnOut.outcome = "not_called"
    /\ fnIn.component = "events-manager"
    /\ fnOut' = publish(fnIn)
    /\ UNCHANGED <<fnIn, ledgerLock, thr, consumer>>

PublishBilling ==
    /\ fnOut.outcome = "not_called"
    /\ fnIn.component = "billing"
    /\ fnOut' = publish_status_update(fnIn)
    /\ UNCHANGED <<fnIn, ledgerLock, thr, consumer>>

NextPublish ==
    \/ PublishEm /\ UNCHANGED <<triageVars, emVars, billVars, dispVars,
                               netVars>>
    \/ PublishBilling /\ UNCHANGED <<triageVars, emVars, billVars, dispVars,
                                    netVars>>

SpecPublish == InitPublish /\ [][NextPublish]_vars

(***************************************************************************)
(* One call of verify_insurance                                            *)
(***************************************************************************)
StatusCodes == {200, 201, 400, 402, 404, 500, 503}

InitInsurance ==
    /\ TriageInit
    /\ EmInit
    /\ BillingInit
    /\ DispatchInit
    /\ NetInit
    /\ fnIn \in [amount : AmountSources,
                 outcome : InsuranceResponses(StatusCodes)
                             \cup InsuranceFailures]
    /\ fnOut = InsuranceResult(FALSE, "not_called")
    /\ StudyIdle

VerifyInsurance ==
    /\ fnOut.reason = "not_called"
    /\ fnOut' = verify_insurance_call(fnIn.amount, fnIn.outcome)
    /\ UNCHANGED <<fnIn, ledgerLock, thr, consumer>>

NextInsurance ==
    \/ VerifyInsurance /\ UNCHANGED <<triageVars, emVars, billVars, dispVars,
                                     netVars>>

SpecInsurance == InitInsurance /\ [][NextInsurance]_vars

(***************************************************************************)
(* The acknowledgement calls of one run of an events-manager handler       *)
(***************************************************************************)
Handlers == {"_on_triage_status", "_on_dispatch_update", "_on_billing_status"}

\* body: "ok" (an object with the keys the handler reads), "bad_json"
\* (json.loads raises), "missing_key" (KeyError), "not_object" (JSON that
\* is not an object: indexing it raises TypeError).  publishOk: whether
\* every self.publish of the run returns.  ackOk, nackOk: whether
\* ch.basic_ack / ch.basic_nack return (they raise on a channel that has
\* been closed).
HandlerRuns ==
    [handler : Handlers,
     body : {"ok", "bad_json", "missing_key", "not_object"},
     publishOk : BOOLEAN, ackOk : BOOLEAN, nackOk : BOOLEAN]

\* acks, nacks: calls of basic_ack and basic_nack made on the delivery tag;
\* settled: how many of them returned; outcome: how the handler ended.
AckCalls(acks, nacks, settled, outcome) ==
    [acks |-> acks, nacks |-> nacks, settled |-> settled, outcome |-> outcome]

\* An except clause calling basic_nack(requeue=...): the call is the last
\* statement of the handler, so its exception leaves the handler.
NackClause(acksBefore, nackOk, decision) ==
    IF nackOk THEN AckCalls(acksBefore, 1, 1, decision)
    ELSE AckCalls(acksBefore, 1, 0, "escaped")

\* _on_triage_status, _on_dispatch_update, _on_billing_status: the try
\* body ends with basic_ack; (KeyError, JSONDecodeError) and Exception are
\* caught by clauses that call basic_nack.  An exception of basic_ack is
\* raised inside the try body and is caught by the Exception clause.
handler_ack_calls(run) ==
    IF run.body \in {"bad_json", "missing_key"}
    THEN NackClause(0, run.nackOk, "nack_drop")
    ELSE IF run.body = "not_object" \/ ~run.publishOk
    THEN NackClause(0, run.nackOk, "nack_requeue")
    ELSE IF run.ackOk THEN AckCalls(1, 0, 1, "ack")
    ELSE NackClause(1, run.nackOk, "nack_requeue")

InitAck ==
    /\ TriageInit
    /\ EmInit
    /\ BillingInit
    /\ DispatchInit
    /\ NetInit
    /\ fnIn \in HandlerRuns
    /\ fnOut = AckCalls(0, 0, 0, "not_called")
    /\ StudyIdle

HandleDelivery ==
    /\ fnOut.outcome = "not_called"
    /\ fnOut' = handler_ack_calls(fnIn)
    /\ UNCHANGED <<fnIn, ledgerLock, thr, consumer>>

NextAck ==
    \/ HandleDelivery /\ UNCHANGED <<triageVars, emVars, billVars, dispVars,
                                    netVars>>

SpecAck == InitAck /\ [][NextAck]_vars

SpecTriage == Init /\ [][NextTriage]_vars

SpecEm == Init /\ [][NextEm]_vars

SpecBilling == Init /\ [][NextBilling]_vars

SpecDispatch == Init /\ [][NextDispatch]_vars

(***************************************************************************)
(* Properties of the triage service                                        *)
(***************************************************************************)

\* The status recorded for patient p by the readings before the i-th one
\* ("Normal" when there is none).
LastStatusBefore(i, p) ==
    LET J == {j \in 1..(i - 1) :
                 triageLog[j].json_ok /\ triageLog[j].userId = p}
    IN  IF J = {} THEN "Normal"
        ELSE triageLog[CHOOSE j \in J : \A k \in J : k <= j].status

\* C1: over any sequence of readings, a TriageStatus event is published for
\* a reading if and only if the reading classifies as abnormal or emergency
\* and that status differs from the last status recorded for the same
\* patient (initially normal).
C1_PublishIffStatusChanged ==
    \A i \in 1..Len(triageLog) :
        triageLog[i].json_ok =>
            (triageLog[i].publish_called
               <=> /\ triageLog[i].status \in {"Abnormal", "Emergency"}
                   /\ triageLog[i].status
                        # LastStatusBefore(i, triageLog[i].userId))

(***************************************************************************)
(* Properties of the events manager                                        *)
(***************************************************************************)

\* Number of published send_alert commands of incident i with template t.
EmAlertCount(i, t) ==
    LET S == {e \in DOMAIN emPublished :
                 e.rk = RK_SEND_ALERT /\ e.incident_id = i /\ e.template = t}
        RECURSIVE Sum(_)
        Sum(T) == IF T = {} THEN 0
                  ELSE LET e == CHOOSE x \in T : TRUE
                       IN  emPublished[e] + Sum(T \ {e})
    IN  Sum(S)

\* C2: for each incident, once an event.dispatch.arrived_at_hospital for it
\* has been handled (acked) by the events manager, exactly one
\* cmd.billing.initiate has been published for that incident, however often
\* the arrived event is delivered or redelivered.
C2_ExactlyOneBillingInitiate ==
    \A m \in emAcked :
        m.rk = RK_DISPATCH_ARRIVED
            => EmCount(RK_BILLING_INITIATE, m.incident_id) = 1

\* C3: for every triage event with status emergency handled (acked) by the
\* events manager, exactly one send_alert with template TRIAGE_EMERGENCY and
\* exactly one request_ambulance carrying its incident_id have been
\* published, also when a publish failed and the event was redelivered.
C3_EmergencyExactlyOneAlertAndRequest ==
    \A m \in emAcked :
        (m.rk \in TriageRks /\ m.status = "emergency")
            => /\ EmAlertCount(m.incident_id, "TRIAGE_EMERGENCY") = 1
               /\ EmCount(RK_DISPATCH_REQUEST, m.incident_id) = 1

\* The handler run recorded in emLast handled a well-formed triage event.
EmLastIsTriage ==
    /\ emLast.decision # "none"
    /\ EmQueueOf(emLast.msg.rk) = Q_TRIAGE_ACTIONABLE
    /\ emLast.msg.json_ok
    /\ emLast.msg.incident_id # NoId

\* C4: handling a triage event whose status is abnormal publishes, when the
\* handler acks, the send_alert with template TRIAGE_ABNORMAL and nothing
\* else, and never a request_ambulance; a request_ambulance is published
\* only by the handling of a triage event whose status is emergency, and
\* every request_ambulance ever published carries the incident of such an
\* event.
C4_RequestOnlyForEmergency ==
    /\ (EmLastIsTriage /\ emLast.msg.status = "abnormal")
          => /\ \A k \in 1..Len(emLast.pubs) :
                    emLast.pubs[k].rk # RK_DISPATCH_REQUEST
             /\ emLast.decision = "ack"
                  => emLast.pubs
                       = <<Pub(RK_SEND_ALERT, emLast.msg.incident_id,
                               "TRIAGE_ABNORMAL", emLast.msg.patient_id)>>
    /\ \A k \in 1..Len(emLast.pubs) :
          emLast.pubs[k].rk = RK_DISPATCH_REQUEST
             => /\ EmLastIsTriage
                /\ emLast.msg.status = "emergency"
                /\ emLast.pubs[k].incident_id = emLast.msg.incident_id
    /\ \A i \in Incidents :
          (\E m \in emAcked :
              m.rk \in TriageRks /\ m.incident_id = i /\ m.status = "abnormal")
             => /\ EmCount(RK_DISPATCH_REQUEST, i) = 0
                /\ EmAlertCount(i, "TRIAGE_ABNORMAL") >= 1

\* An abnormal triage event has been acked after an emergency one had its
\* ambulance requested.
C4_Witness_AbnormalHandled ==
    /\ EmLastIsTriage
    /\ emLast.msg.status = "abnormal"
    /\ emLast.decision = "ack"
    /\ \E i \in Incidents : EmCount(RK_DISPATCH_REQUEST, i) = 1

(***************************************************************************)
(* Properties of the billing saga                                          *)
(***************************************************************************)

\* The status of the row of the saga execution recorded in sagaHist.
SagaRowStatus == billings[billing_id].status

\* The outcome events the execution recorded in sagaHist has published.
SagaPublished(rk) == \E k \in 1..Len(sagaHist.events) : sagaHist.events[k].rk = rk

SagaAttempted(rk) ==
    \E k \in 1..Len(sagaHist.attempted) : sagaHist.attempted[k] = rk

C6_PaidUpdateFailureCompensates ==
    (/\ sagaHist.finished
     /\ sagaHist.payment_ok
     /\ sagaHist.paid_update
          \in {"DB_ERROR", "RAISE_UNCOMMITTED", "RAISE_COMMITTED",
               "SIMULATED"})
       => /\ sagaHist.refunds = <<sagaHist.paid_ref>>
          /\ sagaHist.cancel # "none"
          /\ DbCommits(sagaHist.cancel) => SagaRowStatus = "CANCELLED"
          /\ billMsg.patient_id # None => SagaAttempted(RK_BILLING_FAILED)
          /\ ~SagaAttempted(RK_BILLING_COMPLETED)

\* C7: the refund is called only with a non-empty payment_reference that a
\* successful payment of the same saga execution returned; when no payment
\* succeeded no refund is issued.
C7_RefundOnlyOfOwnPayment ==
    /\ \A k \in 1..Len(sagaHist.refunds) :
          /\ sagaHist.refunds[k] # None
          /\ sagaHist.payment_ok
          /\ sagaHist.refunds[k] = sagaHist.paid_ref
    /\ ~sagaHist.payment_ok => sagaHist.refunds = <<>>

\* The second payment taken by the service has been refunded by its saga.
C7_Witness_Refunded ==
    /\ sagaHist.finished
    /\ sagaHist.paid_ref = 2
    /\ sagaHist.refunds = <<2>>

C9_RowStatusMonotonic ==
    [][\A id \in DOMAIN billings :
          /\ id \in DOMAIN billings'
          /\ billings'[id].status # billings[id].status
               => \/ /\ billings[id].status = "PENDING"
                     /\ billings'[id].status \in {"PAID", "CANCELLED"}
                  \/ /\ billings[id].status = "PAID"
                     /\ billings'[id].status = "CANCELLED"
                     /\ id = billing_id
                     /\ sagaHist.rolled_back
                     /\ sagaHist.refunds # <<>>]_vars

\* A row that was committed as PAID has been set to CANCELLED by the
\* compensation, which attempted the refund.
C9_Witness_PaidThenCancelled ==
    /\ sagaHist.paid_update = "RAISE_COMMITTED"
    /\ DbCommits(sagaHist.cancel)
    /\ SagaRowStatus = "CANCELLED"
    /\ sagaHist.refunds # <<>>

(***************************************************************************)
(* Properties of the dispatch service                                      *)
(***************************************************************************)

\* The lifecycle events, in the order of the claim.
LifecycleOrder ==
    <<RK_DISPATCH_UNIT_ASSIGNED, RK_DISPATCH_ENROUTE,
      RK_DISPATCH_PATIENT_ONBOARD, RK_DISPATCH_ARRIVED>>

\* The routing keys of the lifecycle events published for dispatch d, in
\* the order of their publication.
RECURSIVE LifecycleOf(_)
LifecycleOf(evs) ==
    IF evs = <<>> THEN <<>>
    ELSE IF Head(evs).rk \in DispatchRks
    THEN <<Head(evs).rk>> \o LifecycleOf(Tail(evs))
    ELSE LifecycleOf(Tail(evs))

\* C10: for each accepted request_ambulance the lifecycle events published
\* are unit_assigned, enroute, patient_onboard, arrived_at_hospital, each at
\* most once and in that order, all with the same dispatch_id, and a later
\* one is never published when an earlier one was not: what has been
\* published is at every moment a prefix of the sequence.
C10_LifecycleInOrder ==
    \A d \in DOMAIN dispatches :
        LET life == LifecycleOf(dispatches[d].events)
        IN  /\ Len(life) <= Len(LifecycleOrder)
            /\ life = SubSeq(LifecycleOrder, 1, Len(life))
            /\ \A k \in 1..Len(dispatches[d].events) :
                  dispatches[d].events[k].dispatch_id = d

(***************************************************************************)
(* Further properties of the events manager                                *)
(***************************************************************************)

\* A delivery the claim calls malformed: not valid JSON, or without
\* incident_id, or (triage) without status, or (dispatch) without patient_id.
EmMalformed(m) ==
    \/ ~m.json_ok
    \/ m.incident_id = NoId
    \/ (EmQueueOf(m.rk) = Q_TRIAGE_ACTIONABLE /\ m.status = NoStatus)
    \/ (EmQueueOf(m.rk) = Q_DISPATCH_STATUS /\ m.patient_id = NoId)

TriageWellFormed ==
    Cardinality({i \in 1..Len(triageLog) : triageLog[i].json_ok})

\* C14: a wearable.data message that is not valid JSON is nacked (without
\* requeue), never acked, not counted as processed, and publishes no
\* TriageStatus; a well-formed message is acked exactly once and never
\* nacked.
C14_MalformedNackedWellFormedAcked ==
    /\ \A i \in 1..Len(triageLog) :
          IF triageLog[i].json_ok
          THEN triageLog[i].acks = 1 /\ triageLog[i].nacks = 0
          ELSE /\ triageLog[i].acks = 0
               /\ triageLog[i].nacks = 1
               /\ ~triageLog[i].publish_called
    /\ service_state.messages_processed = TriageWellFormed

\* The template the alert of event m is to carry.
AlertTemplateOf(m) ==
    CASE m.rk \in TriageRks /\ m.status \in {"emergency", "Emergency"} ->
             "TRIAGE_EMERGENCY"
      [] m.rk \in TriageRks /\ m.status \in {"abnormal", "Abnormal"} ->
             "TRIAGE_ABNORMAL"
      [] m.rk = "event.dispatch.unit_assigned"   -> "DISPATCH_UNIT_ASSIGNED"
      [] m.rk = "event.dispatch.enroute"         -> "DISPATCH_ENROUTE"
      [] m.rk = "event.dispatch.patient_onboard" -> "DISPATCH_PATIENT_ONBOARD"
      [] m.rk = "event.dispatch.arrived_at_hospital" ->
             "DISPATCH_ARRIVED_AT_HOSPITAL"
      [] m.rk = "event.billing.completed"        -> "BILLING_COMPLETED"
      [] m.rk = "event.billing.failed"           -> "BILLING_FAILED"
      [] OTHER                                   -> "<no template>"

\* The send_alert commands among the messages pubs.
AlertsIn(pubs) ==
    {k \in 1..Len(pubs) : pubs[k].rk = RK_SEND_ALERT}

RuleTableStatus(metrics) ==
    LET hr   == metrics.heartRateBpm
        spo2 == metrics.spO2Percentage
        temp == metrics.bodyTemperatureCelsius
        resp == metrics.respirationRateBpm
    IN  IF \/ spo2 < 91
           \/ hr > 150 \/ hr < 40
           \/ temp > 390 \/ temp < 350
           \/ resp > 30 \/ resp < 8
        THEN "emergency"
        ELSE IF \/ spo2 < 95
                \/ hr > 100 \/ hr < 50
                \/ temp > 375 \/ temp < 360
                \/ resp > 24 \/ resp < 10
        THEN "abnormal"
        ELSE "normal"

\* The fields absent from a reading.
MissingFields(metrics) ==
    {f \in DOMAIN metrics : metrics[f] = Missing}

\* C15: for every reading (with all four vital signs present)
\* determine_triage_status returns the status of the ordered rule table:
\* emergency on spo2, heart rate, temperature or respiration beyond the
\* emergency thresholds, otherwise abnormal beyond the abnormal thresholds
\* (heart rate > 100 or < 50, ...), otherwise normal.
C15_ClassifierFollowsRuleTable ==
    (fnOut # "none" /\ fnIn \in ClassifyInputs /\ MissingFields(fnIn) = {})
       => Lower(fnOut) = RuleTableStatus(fnIn)

\* C16: a reading with any vital-sign field missing is classified as if
\* that field were out of range: it never classifies as normal, and a
\* reading with empty metrics classifies as emergency.
C16_MissingFieldOutOfRange ==
    (fnOut # "none" /\ fnIn \in ClassifyInputs /\ MissingFields(fnIn) # {})
       => /\ fnOut # "Normal"
          /\ MissingFields(fnIn) = DOMAIN fnIn => fnOut = "Emergency"

(***************************************************************************)
(* Properties of the hospital selection                                    *)
(***************************************************************************)

\* The position in the table of the hospital with id h.
IndexOfHospital(table, h) == CHOOSE i \in 1..Len(table) : table[i].id = h

\* C18: over a non-empty hospitals table pick_best_hospital returns the
\* hospital whose score distance + max(0, 5 - capacity) * 0.5 - severity * 0.1
\* is minimal among all hospitals, the first in iteration order among those
\* of the same score.
C18_PicksMinimalScore ==
    (fnOut # "none" /\ DOMAIN fnIn = {"table", "places", "severity"}
       /\ fnIn.table # <<>>)
       => LET i == IndexOfHospital(fnIn.table, fnOut)
          IN  \A j \in 1..Len(fnIn.table) :
                 LET si == HospitalScore(fnIn.table[i], fnIn.severity)
                     sj == HospitalScore(fnIn.table[j], fnIn.severity)
                 IN  si < sj \/ (si = sj /\ i <= j)

CannotDispatch(run) ==
    \/ ~run.msg.json_ok
    \/ run.msg.command # "request_ambulance"
    \/ ~run.msg.loc_ok
    \/ run.picked = NoHospital

\* C20: a run of callback on a request that cannot be dispatched publishes
\* no dispatch event, starts no workflow and no vitals task, and raises
\* nothing out of the callback.
C20_UndispatchableIsDropped ==
    [][(dispHandled' # dispHandled /\ CannotDispatch(dispLast'))
          => /\ dispatches' = dispatches
             /\ ACTIVE_DISPATCHES' = ACTIVE_DISPATCHES
             /\ dispLast'.dispatch_id = 0
             /\ ~dispLast'.raised]_vars

C20_Witness_NoHospitalAfterDispatch ==
    /\ dispHandled > 0
    /\ dispLast.msg.command = "request_ambulance"
    /\ dispLast.msg.loc_ok
    /\ dispLast.picked = NoHospital
    /\ dispatches # << >>

(***************************************************************************)
(* Properties of the services joined by the broker                         *)
(***************************************************************************)

\* C12: with no call failing and every consumer running, a wearable reading
\* that triage classifies as an emergency leads to the dispatch service
\* consuming a request_ambulance command and publishing unit_assigned.
C12_EmergencyReadingReachesDispatch ==
    (\E i \in 1..Len(triageLog) : triageLog[i].status = "Emergency")
       ~> (\E d \in DOMAIN dispatches :
              \E k \in 1..Len(dispatches[d].events) :
                 dispatches[d].events[k].rk = RK_DISPATCH_UNIT_ASSIGNED)

\* The dispatch ids callback can draw.
DispatchIds == {DispatchUuid(n) : n \in 1..MaxRequests}

\* The billing outcome events published for incident d.
OutcomeCount(d) ==
    Cardinality({k \in 1..Len(routed.outcomes) :
                    /\ routed.outcomes[k].incident_id = d
                    /\ routed.outcomes[k].rk \in BillingRks})

\* C11: with every thread and consumer scheduled fairly and only finitely
\* many calls failing, every accepted dispatch eventually has a billing
\* outcome event (event.billing.completed or event.billing.failed), and
\* never more than one.
C11_AcceptedDispatchBilledOnce ==
    \A d \in DispatchIds :
        /\ [](OutcomeCount(d) <= 1)
        /\ (d \in DOMAIN dispatches) ~> (OutcomeCount(d) = 1)

(***************************************************************************)
(* Properties of the events manager's acknowledgements and ledger          *)
(***************************************************************************)

C22_LedgerImpliesInitiatePublished ==
    \A m \in emAcked :
        (m.rk = RK_DISPATCH_ARRIVED
           /\ m.incident_id \in billing_initiated_incidents)
          => EmCount(RK_BILLING_INITIATE, m.incident_id) >= 1

\* C23: the ledger never loses an entry and grows only in a run handling
\* arrived_at_hospital; a run handling unit_assigned, enroute or
\* patient_onboard publishes no cmd.billing.initiate and leaves the ledger
\* unchanged.
C23_OnlyArrivalTouchesLedger ==
    [][/\ billing_initiated_incidents \subseteq billing_initiated_incidents'
       /\ billing_initiated_incidents' # billing_initiated_incidents
            => /\ emDeliveries' # emDeliveries
               /\ emLast'.msg.rk = RK_DISPATCH_ARRIVED
       /\ (emDeliveries' # emDeliveries
             /\ emLast'.msg.rk \in {RK_DISPATCH_UNIT_ASSIGNED,
                                    RK_DISPATCH_ENROUTE,
                                    RK_DISPATCH_PATIENT_ONBOARD})
            => /\ billing_initiated_incidents' = billing_initiated_incidents
               /\ \A k \in 1..Len(emLast'.pubs) :
                     emLast'.pubs[k].rk # RK_BILLING_INITIATE]_vars

C23_Witness_OnboardAfterArrival ==
    /\ billing_initiated_incidents # {}
    /\ emLast.msg.rk = RK_DISPATCH_PATIENT_ONBOARD
    /\ emLast.decision = "ack"

\* The threads that went on to publish cmd.billing.initiate for incident i.
PublishAttempts(i) ==
    {t \in DOMAIN thr : /\ thr[t].incident_id = i
                        /\ thr[t].pc \in {"publish", "published", "raised"}}

\* C24: with several threads in publish_initiate_billing, at most one thread
\* is between the ledger check and the insert, at most one goes on to
\* publish cmd.billing.initiate for an incident_id, and no thread holds the
\* ledger lock while it publishes.
C24_AtomicCheckInsertOnePublish ==
    /\ Cardinality({t \in DOMAIN thr :
                      thr[t].pc \in {"check", "insert", "release_return",
                                     "release_publish"}}) <= 1
    /\ \A i \in Incidents :
          /\ Cardinality(PublishAttempts(i)) <= 1
          /\ EmCount(RK_BILLING_INITIATE, i) <= 1
    /\ \A t \in DOMAIN thr : thr[t].pc = "publish" => ledgerLock # t

C24_Witness_SecondThreadSkipped ==
    \E t, u \in DOMAIN thr :
        /\ t # u
        /\ thr[t].incident_id = thr[u].incident_id
        /\ thr[t].pc = "published"
        /\ thr[u].pc = "skipped"

(***************************************************************************)
(* Properties of the dispatch threads                                      *)
(***************************************************************************)

\* C25: once stop_monitoring is set for a dispatch its vitals thread
\* eventually leaves its loop and exits (closing its connection), and once
\* a workflow has ended its vitals thread, if it was started, eventually
\* has exited.
C25_VitalsStopsAfterStopFlag ==
    \A d \in {DispatchUuid(n) : n \in 1..MaxRequests} :
        /\ (d \in DOMAIN ACTIVE_DISPATCHES
              /\ ACTIVE_DISPATCHES[d].stop_monitoring)
             ~> (d \in DOMAIN dispatches /\ dispatches[d].vit = "exited")
        /\ (d \in DOMAIN dispatches /\ dispatches[d].wf = "ended")
             ~> (d \in DOMAIN dispatches
                   /\ dispatches[d].vit \in {"none", "exited"})

C25_Witness_ExitedAfterPublishing ==
    \E d \in DOMAIN ACTIVE_DISPATCHES :
        /\ ACTIVE_DISPATCHES[d].stop_monitoring
        /\ ~SHOULD_STOP
        /\ dispatches[d].vit = "exited"
        /\ dispatches[d].vitals_sent >= 1
        /\ dispatches[d].wf = "ended"

\* Whether an event with routing key rk was published for dispatch d.
HasEvent(d, rk) ==
    \E k \in 1..Len(dispatches[d].events) : dispatches[d].events[k].rk = rk

\* C26: a dispatch whose arrived_at_hospital was published and whose vitals
\* thread has exited is no longer in the active-dispatches map, and the map
\* holds only dispatches whose workflow is still in progress.
C26_ActiveMapPruned ==
    \A d \in DOMAIN dispatches :
        /\ (HasEvent(d, RK_DISPATCH_ARRIVED) /\ dispatches[d].vit = "exited")
             => d \notin DOMAIN ACTIVE_DISPATCHES
        /\ d \in DOMAIN ACTIVE_DISPATCHES => dispatches[d].wf # "ended"

\* The workflow events published for dispatch d in the record rec.
WorkflowEvents(rec) ==
    {k \in 1..Len(rec.events) :
        rec.events[k].rk \in {RK_DISPATCH_PATIENT_ONBOARD,
                              RK_DISPATCH_ARRIVED}}

\* C27: once the shutdown signal has been handled, no workflow thread
\* publishes a further event and no vitals thread is started.
C27_NoWorkflowEventAfterSignal ==
    [][SHOULD_STOP
         => \A d \in DOMAIN dispatches :
               /\ WorkflowEvents(dispatches'[d]) = WorkflowEvents(dispatches[d])
               /\ dispatches[d].vit = "none" => dispatches'[d].vit = "none"]_vars

(***************************************************************************)
(* Properties of the consumer loops                                        *)
(***************************************************************************)

\* C28: a consumer loop whose latest connection loss came while the
\* component was not shutting down (and the broker could be reached again)
\* is consuming with its consumer registered for as long as the component
\* is not shutting down, and no loop reconnects after a loss that came
\* during shutdown.
C28_LossReconnectsAndReregisters ==
    \A c \in DOMAIN consumer :
        /\ (consumer[c].last_loss = "running" /\ ~consumer[c].stopping)
             => (consumer[c].pc = "consuming" /\ consumer[c].registered)
        /\ consumer[c].reconnects_stopping = 0

(***************************************************************************)
(* Properties of the publish calls                                         *)
(***************************************************************************)

\* C29: a publish whose basic_publish fails because the channel is closed
\* is followed by exactly one reconnect and one retry (two basic_publish
\* calls, one connect), and a call that did not get its message out ends
\* with a failure its caller sees.
C29_ClosedChannelReconnectsAndRetriesOnce ==
    fnOut.outcome # "not_called" =>
        /\ fnIn.channel = "stale"
             => (fnOut.reconnects = 1 /\ fnOut.attempts = 2)
        /\ ~fnOut.published
             => fnOut.outcome \in {"raised", "returned_false", "process_exit"}

(***************************************************************************)
(* Properties of the billing compensation                                  *)
(***************************************************************************)

\* Whether event.billing.failed was handed to publish_status_update.
FailedPublishAttempted ==
    \E k \in 1..Len(sagaHist.attempted) :
        sagaHist.attempted[k] = RK_BILLING_FAILED

C31_CreateFailureStopsSaga ==
    (sagaCount > 0 /\ billMsg.json_ok /\ ~sagaHist.created)
       => /\ billPc = "idle"
          /\ sagaHist.finished
          /\ sagaHist.insurance = "none"
          /\ ~sagaHist.payment_called
          /\ ~sagaHist.rolled_back
          /\ sagaHist.refunds = <<>>
          /\ sagaHist.cancel = "none"
          /\ sagaHist.attempted = <<>>
          /\ sagaHist.events = <<>>

C31_Witness_SecondSagaCreateFailed ==
    /\ sagaCount = 2
    /\ Len(billings) = 1
    /\ billMsg.json_ok
    /\ ~sagaHist.created
    /\ sagaHist.finished

\* The reason the rule table gives the outcome o of the insurance call.
RuleTableReason(o) ==
    IF o.kind = "network_error" THEN "SERVICE_UNAVAILABLE"
    ELSE IF o.kind = "response" /\ o.status_code = 200
            /\ o.verified = "true" THEN "OK"
    ELSE IF o.kind = "response" /\ o.status_code = 404 THEN "NO_POLICY"
    ELSE IF o.kind = "response" /\ o.status_code = 402
    THEN "INSUFFICIENT_COVERAGE"
    ELSE "SERVICE_ERROR"

\* C32: when verify_insurance makes the insurance call, its reason is the
\* one the rule table gives the call's outcome (OK for 200 with verified
\* true, NO_POLICY for 404, INSUFFICIENT_COVERAGE for 402,
\* SERVICE_UNAVAILABLE for a network error, SERVICE_ERROR otherwise), and
\* its verified flag is true exactly when the reason is OK.
C32_ReasonFollowsRuleTable ==
    fnOut.reason # "not_called" =>
        /\ fnIn.amount \in {"given", "looked_up"}
             => fnOut.reason = RuleTableReason(fnIn.outcome)
        /\ fnOut.verified <=> fnOut.reason = "OK"

(***************************************************************************)
(* Further properties of the triage service                                *)
(***************************************************************************)

\* The <s> of a routing key triage.status.<s>.
TriageKeyStatus(rk) ==
    CASE rk = RK_TRIAGE_EMERGENCY -> "emergency"
      [] rk = RK_TRIAGE_ABNORMAL  -> "abnormal"
      [] OTHER                    -> "other"

\* C33: every event triage published went to triage.status.abnormal or
\* triage.status.emergency, its payload's status is the lower-case status
\* of its routing key, it carries the reading's patient under the key
\* patient_id, its incident_id is fresh, and no reading classified Normal
\* caused a publish.
C33_TriageEventMatchesRoutingKey ==
    /\ \A k \in 1..Len(triagePublished) :
          LET e == triagePublished[k]
          IN  /\ e.routing_key \in TriageRks
              /\ e.status = TriageKeyStatus(e.routing_key)
              /\ "patient_id" \in DOMAIN e
              /\ \A j \in 1..Len(triagePublished) :
                    j # k => triagePublished[j].incident_id # e.incident_id
    /\ \A k \in 1..Len(triageLog) :
          triageLog[k].status = "Normal" => ~triageLog[k].publish_called

\* C34: in every state of the billings table a row's payment_reference is
\* set exactly when the row's status is PAID.
C34_ReferenceIffPaid ==
    \A id \in DOMAIN billings :
        billings[id].payment_reference # None <=> billings[id].status = "PAID"

C34_Witness_PaidRowAndCancelledAfterPaid ==
    /\ \E id \in DOMAIN billings :
          /\ billings[id].status = "PAID"
          /\ billings[id].payment_reference # None
    /\ \E id \in DOMAIN billings :
          /\ id = billing_id
          /\ billings[id].status = "CANCELLED"
          /\ billings[id].payment_reference = None
          /\ sagaHist.paid_update = "RAISE_COMMITTED"

\* C35: the cmd.billing.initiate message of a saga is acknowledged to the
\* broker only once the saga, compensation included, has completed.
C35_AckOnlyAfterSagaCompleted ==
    sagaHist.acked => sagaHist.finished

(***************************************************************************)
(* Further properties of the events-manager handlers                       *)
(***************************************************************************)

\* C36: every run of _on_triage_status, _on_dispatch_update or
\* _on_billing_status makes exactly one acknowledgement call on its
\* delivery tag, a basic_ack or a basic_nack, and that call takes effect.
C36_ExactlyOneAckDecision ==
    fnOut.outcome # "not_called" =>
        /\ fnOut.acks + fnOut.nacks = 1
        /\ fnOut.settled = 1

(***************************************************************************)
(* Further properties of the dispatch events                               *)
(***************************************************************************)

\* C37: in the order in which the events of a dispatch were published, no
\* dispatch.updates.patient_vitals message comes after the
\* arrived_at_hospital event and none comes before the patient_onboard
\* event.
C37_VitalsBetweenOnboardAndArrived ==
    \A d \in DOMAIN dispatches :
        LET ev == dispatches[d].events
        IN  \A j \in 1..Len(ev) :
               ev[j].rk = RK_PATIENT_VITALS
                 => /\ \E i \in 1..(j - 1) :
                          ev[i].rk = RK_DISPATCH_PATIENT_ONBOARD
                    /\ \A i \in 1..(j - 1) : ev[i].rk # RK_DISPATCH_ARRIVED

\* C38: every lifecycle event of a dispatch carries the incident_id of the
\* cmd.dispatch.request_ambulance message that caused the dispatch.
C38_EventsCarryRequestIncident ==
    \A d \in DOMAIN dispatches :
        \A k \in 1..Len(dispatches[d].events) :
            dispatches[d].events[k].incident_id
              = dispatches[d].request_incident

\* C39: a saga execution whose payment succeeded ends having published
\* event.billing.completed or having requested a refund of that payment's
\* reference.
C39_ChargeEndsCompletedOrRefunded ==
    (sagaHist.finished /\ sagaHist.payment_ok)
       => \/ \E k \in 1..Len(sagaHist.events) :
                sagaHist.events[k].rk = RK_BILLING_COMPLETED
          \/ \E k \in 1..Len(sagaHist.refunds) :
                sagaHist.refunds[k] = sagaHist.paid_ref

\* C40: a run of _on_dispatch_update on an arrived_at_hospital delivery
\* whose send_alert publish fails publishes nothing, leaves the ledger as
\* it was and leaves the delivery queued, so that its redelivery still
\* finds the incident absent from the ledger.
C40_FailedAlertLeavesLedger ==
    [][(/\ emDeliveries' # emDeliveries
        /\ emLast'.msg.rk = RK_DISPATCH_ARRIVED
        /\ emLast'.failed
        /\ emLast'.pubs = <<>>)
         => /\ billing_initiated_incidents' = billing_initiated_incidents
            /\ emPublished' = emPublished
            /\ emLast'.msg \in emPending']_vars

C40_Witness_ArrivedAlertFailed ==
    /\ emLast.msg.rk = RK_DISPATCH_ARRIVED
    /\ emLast.failed
    /\ emLast.pubs = <<>>
    /\ emLast.msg.incident_id \notin billing_initiated_incidents
    /\ emLast.msg \in emPending

====
